---- MODULE Spec2Model ----
(***************************************************************************)
(* A model of ppsc-build: the extern-path registry (extern_paths.rs), the  *)
(* boxing decision (context.rs), the per-file walk of the code generator   *)
(* (code_generator.rs) and the driver Config::generate (config.rs).        *)
(*                                                                         *)
(* Strings are sequences of one-character strings; the Rust path           *)
(* separator "::" is a single symbol of the alphabet.                      *)
(***************************************************************************)
EXTENDS Integers, Sequences, FiniteSets, TLC

\* ------------------------------------------------------------------ bounds
\* most Config::extern_path calls made before a registry is built (SpecExtern)
MaxExternPaths == 2
\* most files in the request list given to Config::generate
MaxRequests == 2
\* the selectors that the calls of the Config builders may register in all
MaxSelectors == 3
\* the modules that write_includes is given at most
MaxModules == 3

VARIABLES
    config,          \* the Config
    pc,              \* where Config::generate stands: "idle", "files", "done", "error", "panic"
    run,             \* how many times Config::generate has been called on config
    requests,        \* the argument of Config::generate: a sequence of [module, fd]
    next_req,        \* the index of the next request in the loop of Config::generate
    message_graph,   \* Context.message_graph
    extern_paths,    \* Context.extern_paths: the map of the ExternPaths
    modules,         \* `modules` of Config::generate: Module -> text
    packages,        \* `packages` of Config::generate: Module -> package
    code_gen,        \* the CodeGenerator of the file being walked
    stack,           \* the calls of generate / append_message / append_enum in progress
    service_state,   \* what the service generator has recorded of its callbacks
    result,          \* what Config::generate returned, None while it has not
    first_result,    \* what the first call of Config::generate returned
    ident_arg,       \* the argument of the last ExternPaths::resolve_ident call
    resolved,        \* what that call returned
    includes         \* Config::write_includes: its modules, its stack and its outfile

vars == <<config, pc, run, requests, next_req, message_graph, extern_paths, modules,
          packages, code_gen, stack, service_state, result, first_result, ident_arg,
          resolved, includes>>

\* ------------------------------------------------------------ Option<T>
None == <<>>
Some(v) == <<v>>
IsSome(o) == o # <<>>
Unwrap(o) == o[1]
\* Iterator::next on a fresh iterator over s
FirstOf(s) == IF s = <<>> THEN <<>> ELSE <<s[1]>>
\* the first of two options that is Some
OrElse(o, other) == IF o # <<>> THEN o ELSE other
\* Option::unwrap_or
UnwrapOr(o, default) == IF o # <<>> THEN o[1] ELSE default

\* ------------------------------------------------------------- strings
Lowers == <<"a","b","c","d","e","f","g","h","i","j","k","l","m",
            "n","o","p","q","r","s","t","u","v","w","x","y","z">>
Uppers == <<"A","B","C","D","E","F","G","H","I","J","K","L","M",
            "N","O","P","Q","R","S","T","U","V","W","X","Y","Z">>

IsUpper(c) == \E i \in DOMAIN Uppers : Uppers[i] = c
IsLower(c) == \E i \in DOMAIN Lowers : Lowers[i] = c
ToLower(c) == IF IsUpper(c) THEN Lowers[CHOOSE i \in DOMAIN Uppers : Uppers[i] = c] ELSE c
ToUpper(c) == IF IsLower(c) THEN Uppers[CHOOSE i \in DOMAIN Lowers : Lowers[i] = c] ELSE c

Last(s) == s[Len(s)]
Front(s) == SubSeq(s, 1, Len(s) - 1)

\* str::split(sep): n occurrences of sep give n+1 segments, empty ones included
RECURSIVE SplitFrom(_, _, _, _)
SplitFrom(s, sep, i, cur) ==
    IF i > Len(s) THEN <<cur>>
    ELSE IF s[i] = sep THEN <<cur>> \o SplitFrom(s, sep, i + 1, <<>>)
    ELSE SplitFrom(s, sep, i + 1, Append(cur, s[i]))
Split(s, sep) == SplitFrom(s, sep, 1, <<>>)

\* Itertools::join(sep)
RECURSIVE Join(_, _)
Join(segs, sep) ==
    IF segs = <<>> THEN <<>>
    ELSE IF Len(segs) = 1 THEN segs[1]
    ELSE segs[1] \o <<sep>> \o Join(Tail(segs), sep)

\* str::rmatch_indices(ch): the positions of ch, rightmost first (1-based)
RECURSIVE RMatchIndicesFrom(_, _, _)
RMatchIndicesFrom(s, ch, i) ==
    IF i < 1 THEN <<>>
    ELSE IF s[i] = ch THEN <<i>> \o RMatchIndicesFrom(s, ch, i - 1)
    ELSE RMatchIndicesFrom(s, ch, i - 1)
RMatchIndices(s, ch) == RMatchIndicesFrom(s, ch, Len(s))

\* str::match_indices(ch): the positions of ch, leftmost first (1-based)
RECURSIVE MatchIndicesFrom(_, _, _)
MatchIndicesFrom(s, ch, i) ==
    IF i > Len(s) THEN <<>>
    ELSE IF s[i] = ch THEN <<i>> \o MatchIndicesFrom(s, ch, i + 1)
    ELSE MatchIndicesFrom(s, ch, i + 1)
MatchIndices(s, ch) == MatchIndicesFrom(s, ch, 1)

\* the items of a sequence
SeqRange(s) == {s[k] : k \in DOMAIN s}

StartsWith(s, p) == Len(p) <= Len(s) /\ SubSeq(s, 1, Len(p)) = p
EndsWith(s, p) == Len(p) <= Len(s) /\ SubSeq(s, Len(s) - Len(p) + 1, Len(s)) = p

\* -------------------------------------------------- ident.rs (casing)
\* a word starts at position i: at the start, after "_", at a lower->Upper step,
\* and at the last capital of a run of capitals that a lower-case letter follows
WordStart(s, i) ==
    \/ i = 1
    \/ s[i - 1] = "_"
    \/ /\ IsUpper(s[i])
       /\ \/ IsLower(s[i - 1])
          \/ IsUpper(s[i - 1]) /\ i < Len(s) /\ IsLower(s[i + 1])

RECURSIVE SnakeFrom(_, _)
SnakeFrom(s, i) ==
    IF i > Len(s) THEN <<>>
    ELSE IF s[i] = "_" THEN <<"_">> \o SnakeFrom(s, i + 1)
    ELSE (IF i > 1 /\ s[i - 1] # "_" /\ WordStart(s, i) THEN <<"_">> ELSE <<>>)
         \o <<ToLower(s[i])>> \o SnakeFrom(s, i + 1)

KwCrate == <<"c","r","a","t","e">>
KwSelf == <<"s","e","l","f">>
KwSuper == <<"s","u","p","e","r">>

\* sanitize_identifier on the keywords that cannot be raw identifiers
EscapeKeyword(ident, keywords) ==
    IF ident \in keywords THEN Append(ident, "_") ELSE ident

\* to_snake: snake case, and the keywords that cannot be raw identifiers get a "_"
ToSnake(s) == EscapeKeyword(SnakeFrom(s, 1), {KwCrate, KwSelf, KwSuper})

RECURSIVE CamelFrom(_, _)
CamelFrom(s, i) ==
    IF i > Len(s) THEN <<>>
    ELSE IF s[i] = "_" THEN CamelFrom(s, i + 1)
    ELSE <<IF WordStart(s, i) THEN ToUpper(s[i]) ELSE ToLower(s[i])>> \o CamelFrom(s, i + 1)

\* to_upper_camel: upper camel case, `Self` gets a "_"
ToUpperCamel(s) == EscapeKeyword(CamelFrom(s, 1), {<<"S","e","l","f">>})

\* ------------------------------------------------------ extern_paths.rs
\* a validate_proto_path that accepts every path
AnyProtoPath(p) == TRUE

\* validate_proto_path: Ok(()) is TRUE
ValidateProtoPath(p) ==
    IF p = <<>> \/ p[1] # "." THEN FALSE
    ELSE <<>> \notin SeqRange(Tail(Split(p, ".")))

Ok(v) == [ok |-> TRUE, v |-> v]
Err(e) == [ok |-> FALSE, v |-> e]

\* ExternPaths::insert on the map `reg`: Err on an invalid or an occupied path
Insert(reg, proto_path, rust_path) ==
    IF ~ ValidateProtoPath(proto_path) THEN Err("invalid")
    ELSE IF proto_path \in DOMAIN reg THEN Err("duplicate")
    ELSE Ok(reg @@ (proto_path :> rust_path))

\* ExternPaths::new: inserts the pairs in order, the first Err is returned (`?`)
RECURSIVE NewFrom(_, _, _)
NewFrom(reg, paths, i) ==
    IF i > Len(paths) THEN Ok(reg)
    ELSE LET r == Insert(reg, paths[i][1], paths[i][2])
         IN IF r.ok THEN NewFrom(r.v, paths, i + 1) ELSE r
ExternPathsNew(paths) == NewFrom(<<>>, paths, 1)

\* a closure without the exemption of a leading `crate`
EscapeEverySegment(idx, segment) == ToSnake(segment)

\* the closure of resolve_ident's map(): idx counts from 0 in the code
EscapeSegment(idx, segment) ==
    IF idx = 1 /\ segment = KwCrate THEN segment ELSE ToSnake(segment)

\* the Some(..) built at a prefix hit: rust_path's "::"-segments, then the schema
\* segments after the prefix but the last, all through the closure, then the last
\* one in upper camel case
RebuildSegments(rust_segments, segments) ==
    Join([k \in 1..(Len(rust_segments) + Len(segments) - 1) |->
             EscapeSegment(k, (rust_segments \o Front(segments))[k])]
         \o <<ToUpperCamel(Last(segments))>>, "::")
RebuildIdent(rust_path, rest) == RebuildSegments(Split(rust_path, "::"), Split(rest, "."))

\* a scan that visits the '.' of pb_ident leftmost first
ShortestFirstScan(pb_ident) == MatchIndices(pb_ident, ".")

\* the order in which resolve_ident visits the '.' of pb_ident
PrefixScanOrder(pb_ident) == RMatchIndices(pb_ident, ".")

RECURSIVE ScanPrefixes(_, _, _)
ScanPrefixes(reg, pb_ident, idxs) ==
    IF idxs = <<>> THEN None
    ELSE IF SubSeq(pb_ident, 1, Head(idxs) - 1) \in DOMAIN reg
    THEN Some(RebuildIdent(reg[SubSeq(pb_ident, 1, Head(idxs) - 1)],
                           SubSeq(pb_ident, Head(idxs) + 1, Len(pb_ident))))
    ELSE ScanPrefixes(reg, pb_ident, Tail(idxs))

\* a resolve_ident without its exact-match lookup
ExactLookupSkipped(reg, pb_ident) == None

\* the exact-match lookup that opens resolve_ident
ExactLookup(reg, pb_ident) ==
    IF pb_ident \in DOMAIN reg THEN Some(reg[pb_ident]) ELSE None

\* ExternPaths::resolve_ident
ResolveExternIdent(reg, pb_ident) ==
    OrElse(ExactLookup(reg, pb_ident),
           ScanPrefixes(reg, pb_ident, PrefixScanOrder(pb_ident)))


\* ------------------------------------------------------------- helpers
\* the indices of s, in order, as a sequence
Indices(s) == [k \in 1..Len(s) |-> k]

\* the indices of s, in order, whose item is in the set keep
IndicesIn(s, keep) == SelectSeq(Indices(s), LAMBDA i : i \in keep)

\* -------------------------------------------- descriptors (prost_types)
\* FieldDescriptorProto; oneof_index -1 is None
Fld(name, label, type, type_name, oneof_index, proto3_optional) ==
    [name |-> name, label |-> label, type |-> type, type_name |-> type_name,
     oneof_index |-> oneof_index, proto3_optional |-> proto3_optional]
\* DescriptorProto
Msg(name, field, nested_type, enum_type, oneof_decl, map_entry) ==
    [name |-> name, field |-> field, nested_type |-> nested_type,
     enum_type |-> enum_type, oneof_decl |-> oneof_decl, map_entry |-> map_entry]
\* EnumDescriptorProto, its values <<name, number>>
Enm(name, value) == [name |-> name, value |-> value]
\* ServiceDescriptorProto, its methods <<name, input_type, output_type>>
Svc(name, method) == [name |-> name, method |-> method]
\* FileDescriptorProto; source_code_info is None or Some(locations), a location is
\* [path, comment]
File(name, package, syntax, message_type, enum_type, service, source_code_info) ==
    [name |-> name, package |-> package, syntax |-> syntax,
     message_type |-> message_type, enum_type |-> enum_type, service |-> service,
     source_code_info |-> source_code_info]

\* ------------------------------------------------- path.rs (PathMap)
\* a match that may begin or end inside a segment
IsMatchInsideSegment(s, p) ==
    \/ s = <<".">>
    \/ s # <<>> /\ s[1] = "." /\ StartsWith(p, s)
    \/ s # <<>> /\ s[1] # "." /\ EndsWith(p, s)
\* a match without the selector `.` for everything
IsMatchNoGlobal(s, p) ==
    \/ s # <<>> /\ s[1] = "." /\ (p = s \/ StartsWith(p, s \o <<".">>))
    \/ s # <<>> /\ s[1] # "." /\ (p = s \/ EndsWith(p, <<".">> \o s))

\* one selector against one fully-qualified path
IsMatch(s, p) ==
    \/ s = <<".">>
    \/ s # <<>> /\ s[1] = "." /\ (p = s \/ StartsWith(p, s \o <<".">>))
    \/ s # <<>> /\ s[1] # "." /\ (p = s \/ EndsWith(p, <<".">> \o s))

\* PathMap::insert: matchers is a Vec of <<selector, value>>
PathMapInsert(matchers, selector, value) == Append(matchers, <<selector, value>>)

\* PathMap::get: the values of all matching selectors, in insertion order
PathMapGet(matchers, fq_path) ==
    LET hits == SelectSeq(matchers, LAMBDA m : IsMatch(m[1], fq_path))
    IN [k \in DOMAIN hits |-> hits[k][2]]

\* PathMap::get_field
PathMapGetField(matchers, fq_path, field) ==
    PathMapGet(matchers, fq_path \o <<".">> \o field)

\* PathMap::get_first_field: the first matching selector's value
PathMapGetFirstField(matchers, fq_path, field) ==
    FirstOf(PathMapGetField(matchers, fq_path, field))

\* -------------------------------------------- message_graph.rs
\* the edges msg -> type_name of one message and of the messages nested in it
RECURSIVE MessageEdges(_, _)
MessageEdges(package, msg) ==
    LET msg_name == package \o <<".">> \o msg.name
    IN {<<msg_name, f.type_name>> :
            f \in {msg.field[k] : k \in {j \in DOMAIN msg.field :
                      /\ ~ msg.map_entry
                      /\ msg.field[j].type = "message"
                      /\ msg.field[j].label # "repeated"}}}
       \cup UNION {MessageEdges(msg_name, msg.nested_type[k]) : k \in DOMAIN msg.nested_type}

RECURSIVE MessageNames(_, _)
MessageNames(package, msg) ==
    LET msg_name == package \o <<".">> \o msg.name
    IN {msg_name}
       \cup UNION {MessageNames(msg_name, msg.nested_type[k]) : k \in DOMAIN msg.nested_type}

FilePackagePrefix(file) == IF file.package = <<>> THEN <<>> ELSE <<".">> \o file.package

\* MessageGraph::new over the files of the request list
MessageGraphNew(files) ==
    LET edges == UNION {UNION {MessageEdges(FilePackagePrefix(files[i]), files[i].message_type[k]) :
                                 k \in DOMAIN files[i].message_type} : i \in DOMAIN files}
        names == UNION {UNION {MessageNames(FilePackagePrefix(files[i]), files[i].message_type[k]) :
                                 k \in DOMAIN files[i].message_type} : i \in DOMAIN files}
    IN [edges |-> edges, nodes |-> names \cup {e[2] : e \in edges}]

RECURSIVE ReachableFrom(_, _)
ReachableFrom(edges, seen) ==
    LET more == seen \cup {e[2] : e \in {x \in edges : x[1] \in seen}}
    IN IF more = seen THEN seen ELSE ReachableFrom(edges, more)

\* MessageGraph::is_nested(outer, inner): inner is reachable from outer
IsNested(graph, outer, inner) ==
    /\ outer \in graph.nodes
    /\ inner \in graph.nodes
    /\ inner \in ReachableFrom(graph.edges, {outer})

\* ---------------------------------------------------------- config.rs
\* Config::default()
ConfigDefault ==
    [service_generator |-> FALSE,
     type_attributes |-> <<>>, message_attributes |-> <<>>,
     enum_attributes |-> <<>>, field_attributes |-> <<>>,
     map_type |-> <<>>, bytes_type |-> <<>>,
     boxed |-> <<>>, disable_comments |-> <<>>,
     type_name_domains |-> <<>>, skip_debug |-> <<>>,
     strip_enum_prefix |-> TRUE,
     extern_paths |-> <<>>]

\* Config::extern_path
ConfigExternPath(c, proto_path, rust_path) ==
    [c EXCEPT !.extern_paths = Append(@, <<proto_path, rust_path>>)]
\* Config::boxed
ConfigBoxed(c, path) == [c EXCEPT !.boxed = PathMapInsert(@, path, TRUE)]
\* Config::service_generator
ConfigServiceGenerator(c) == [c EXCEPT !.service_generator = TRUE]
\* Config::retain_enum_prefix
ConfigRetainEnumPrefix(c) == [c EXCEPT !.strip_enum_prefix = FALSE]

\* `for matcher in paths { map.insert(matcher, value) }`
RECURSIVE PathMapInsertAll(_, _, _)
PathMapInsertAll(matchers, paths, value) ==
    IF paths = <<>> THEN matchers
    ELSE PathMapInsertAll(PathMapInsert(matchers, Head(paths), value), Tail(paths), value)

\* a btree_map that adds its paths to the selectors it finds
BtreeMapKeepsSelectors(c, paths) ==
    [c EXCEPT !.map_type = PathMapInsertAll(@, paths, "BTreeMap")]

\* Config::btree_map, Config::bytes, Config::disable_comments and Config::skip_debug
\* clear their selectors before they insert the paths of the call
ConfigBtreeMap(c, paths) ==
    [c EXCEPT !.map_type = PathMapInsertAll(<<>>, paths, "BTreeMap")]
ConfigBytes(c, paths) ==
    [c EXCEPT !.bytes_type = PathMapInsertAll(<<>>, paths, "Bytes")]
ConfigDisableComments(c, paths) ==
    [c EXCEPT !.disable_comments = PathMapInsertAll(<<>>, paths, TRUE)]
ConfigSkipDebug(c, paths) ==
    [c EXCEPT !.skip_debug = PathMapInsertAll(<<>>, paths, TRUE)]
\* Config::type_name_domain
ConfigTypeNameDomain(c, paths, domain) ==
    [c EXCEPT !.type_name_domains = PathMapInsertAll(@, paths, domain)]
\* Config::field_attribute, type_attribute, message_attribute and enum_attribute
ConfigFieldAttribute(c, path, attribute) ==
    [c EXCEPT !.field_attributes = PathMapInsert(@, path, attribute)]
ConfigTypeAttribute(c, path, attribute) ==
    [c EXCEPT !.type_attributes = PathMapInsert(@, path, attribute)]
ConfigMessageAttribute(c, path, attribute) ==
    [c EXCEPT !.message_attributes = PathMapInsert(@, path, attribute)]
ConfigEnumAttribute(c, path, attribute) ==
    [c EXCEPT !.enum_attributes = PathMapInsert(@, path, attribute)]

\* --------------------------------------------------------- context.rs
\* Context: [config, message_graph, extern_paths]
\* a should_box_impl without its test for repeated fields
NeverRepeated(field) == FALSE

\* the test `field.label() == Label::Repeated` that opens should_box_impl
IsRepeatedLabel(field) == field.label = "repeated"

\* a should_box_impl that asks the message graph alone
ShouldBoxByGraph(ctx, fq_message_name, oneof, field) ==
    /\ field.label # "repeated"
    /\ field.type \in {"message", "group"}
    /\ IsNested(ctx.message_graph, field.type_name, fq_message_name)

\* Context::should_box_impl; oneof is None or Some(oneof_name)
ShouldBoxImpl(ctx, fq_message_name, oneof, field) ==
    IF IsRepeatedLabel(field) THEN FALSE
    ELSE IF /\ field.type \in {"message", "group"}
            /\ IsNested(ctx.message_graph, field.type_name, fq_message_name)
    THEN TRUE
    ELSE LET config_path == IF oneof = None THEN fq_message_name
                            ELSE fq_message_name \o <<".">> \o Unwrap(oneof)
         IN IsSome(PathMapGetFirstField(ctx.config.boxed, config_path, field.name))

ShouldBoxMessageField(ctx, fq_message_name, field) ==
    ShouldBoxImpl(ctx, fq_message_name, None, field)
ShouldBoxOneofField(ctx, fq_message_name, oneof_name, field) ==
    ShouldBoxImpl(ctx, fq_message_name, Some(oneof_name), field)

\* Context::should_disable_comments; field_name is None or Some(name)
ShouldDisableComments(ctx, fq_message_name, field_name) ==
    IF IsSome(field_name)
    THEN IsSome(PathMapGetFirstField(ctx.config.disable_comments, fq_message_name,
                                     Unwrap(field_name)))
    ELSE PathMapGet(ctx.config.disable_comments, fq_message_name) # <<>>

\* a context whose registry resolves nothing
NoExternIdent(ctx, pb_ident) == None

\* Context::resolve_extern_ident
CtxResolveExternIdent(ctx, pb_ident) == ResolveExternIdent(ctx.extern_paths, pb_ident)


\* Context::type_attributes / message_attributes / enum_attributes
CtxTypeAttributes(ctx, fq_type_name) == PathMapGet(ctx.config.type_attributes, fq_type_name)
CtxMessageAttributes(ctx, fq_name) == PathMapGet(ctx.config.message_attributes, fq_name)
CtxEnumAttributes(ctx, fq_name) == PathMapGet(ctx.config.enum_attributes, fq_name)
\* Context::field_attributes
CtxFieldAttributes(ctx, fq_message_name, field_name) ==
    PathMapGetField(ctx.config.field_attributes, fq_message_name, field_name)

\* ------------------------------------------------------ collections.rs
\* MapType::rust_type
MapTypeRustType(map_type) ==
    IF map_type = "HashMap" THEN <<"alloc::collections::BTreeMap">>
    ELSE <<"alloc::collections::BTreeMap">>
\* BytesType::rust_type
BytesTypeRustType(bytes_type) ==
    IF bytes_type = "Vec" THEN <<"alloc::vec::Vec<u8>">> ELSE <<"Bytes">>

\* Context::map_type and Context::bytes_type (unwrap_or_default)
CtxMapType(ctx, fq_message_name, field_name) ==
    UnwrapOr(PathMapGetFirstField(ctx.config.map_type, fq_message_name, field_name),
             "HashMap")
CtxBytesType(ctx, fq_message_name, field_name) ==
    UnwrapOr(PathMapGetFirstField(ctx.config.bytes_type, fq_message_name, field_name),
             "Vec")

\* --------------------------------------------------- code_generator.rs
\* The output buffer is the sequence of the pieces pushed to it: Tok(k, i, n, w, t)
\* is a piece of kind k with a number i (the depth of an indent, the number of an
\* enum variant), a name n, the wrappers w and a type or text t.
Tok(k, i, n, w, t) == [k |-> k, i |-> i, n |-> n, w |-> w, t |-> t]

\* CodeGenerator: [package, type_path, source_info, syntax, depth, path, buf], and
\* panicked, set when a panic has unwound the walk, with the message of the panic
\* in fatal: what panicked and, for overlapping enum variant names, the generated
\* name and the two names of the schema that the message of the panic! gives
Fatal(what, name, old, new) == [what |-> what, name |-> name, old |-> old, new |-> new]
NoFatal == Fatal("", <<>>, <<>>, <<>>)
PanicWith(cg, fatal) ==
    IF cg.panicked THEN cg ELSE [cg EXCEPT !.panicked = TRUE, !.fatal = fatal]
Push(cg, tok) == IF cg.panicked THEN cg ELSE [cg EXCEPT !.buf = Append(@, tok)]
Text(cg, k, n, w, t) == Push(cg, Tok(k, 0, n, w, t))
Panic(cg) == PanicWith(cg, Fatal("assert", <<>>, <<>>, <<>>))

\* push_indent: one piece standing for `depth` indents
PushIndent(cg) == Push(cg, Tok("indent", cg.depth, <<>>, <<>>, <<>>))

\* a piece of fixed text, and a piece of text around a name
Fixed(k) == Tok(k, 0, <<>>, <<>>, <<>>)
Named(k, n) == Tok(k, 0, n, <<>>, <<>>)

\* a run of lines at one depth: push_indent() and the push_str()s of each line
Lines(cg, toks) ==
    IF cg.panicked THEN cg
    ELSE [cg EXCEPT !.buf = @ \o [i \in 1..(2 * Len(toks)) |->
                                    IF i % 2 = 1 THEN Tok("indent", cg.depth, <<>>, <<>>, <<>>)
                                    ELSE toks[i \div 2]]]

PathPush(cg, x) == [cg EXCEPT !.path = Append(@, x)]
\* Vec::pop leaves an empty vector empty
PathPop(cg) == [cg EXCEPT !.path = IF @ = <<>> THEN @ ELSE Front(@)]
DepthInc(cg) == [cg EXCEPT !.depth = @ + 1]
DepthDec(cg) == [cg EXCEPT !.depth = @ - 1]

\* the cursor of the walk
Cursor(cg) == [path |-> cg.path, type_path |-> cg.type_path, depth |-> cg.depth]

\* CodeGenerator::fq_name
FqName(cg, message_name) ==
    (IF cg.package = <<>> THEN <<>> ELSE <<".">>)
    \o cg.package
    \o (IF cg.type_path = <<>> THEN <<>> ELSE <<".">>)
    \o Join(cg.type_path, ".")
    \o <<".">> \o message_name

\* the retain() and sort_by() of CodeGenerator::generate on the locations
RECURSIVE PathLess(_, _)
PathLess(a, b) ==
    IF a = <<>> THEN b # <<>>
    ELSE IF b = <<>> THEN FALSE
    ELSE IF Head(a) # Head(b) THEN Head(a) < Head(b)
    ELSE PathLess(Tail(a), Tail(b))

RECURSIVE SortLocations(_)
SortLocations(locs) ==
    IF locs = <<>> THEN <<>>
    ELSE LET rest == SortLocations(Tail(locs))
             before == SelectSeq(rest, LAMBDA l : ~ PathLess(Head(locs).path, l.path))
             after == SelectSeq(rest, LAMBDA l : PathLess(Head(locs).path, l.path))
         IN before \o <<Head(locs)>> \o after

PrepareSourceInfo(source_code_info) ==
    IF source_code_info = None THEN None
    ELSE Some(SortLocations(SelectSeq(Unwrap(source_code_info),
                LAMBDA loc : Len(loc.path) > 0 /\ Len(loc.path) % 2 = 0)))

\* CodeGenerator::location: [panic, v]; the unwrap() of a failed binary search panics
Location(cg) ==
    IF cg.source_info = None THEN [panic |-> FALSE, v |-> None]
    ELSE LET locs == Unwrap(cg.source_info)
             hits == {k \in DOMAIN locs : locs[k].path = cg.path}
         IN IF hits = {} THEN [panic |-> TRUE, v |-> None]
            ELSE [panic |-> FALSE, v |-> Some(locs[CHOOSE k \in hits : TRUE])]

\* Comments::from_location and Comments::append_with_indent
AppendComments(cg, location) ==
    IF location.comment = <<>> THEN cg
    ELSE Push(cg, Tok("doc", cg.depth, <<>>, <<>>, location.comment))

\* CodeGenerator::append_doc; field_name is None or Some(name)
AppendLocation(cg, loc) ==
    IF loc.panic THEN PanicWith(cg, Fatal("location", <<>>, <<>>, <<>>))
    ELSE IF IsSome(loc.v) THEN AppendComments(cg, Unwrap(loc.v))
    ELSE cg
AppendDoc(ctx, cg, fq_name, field_name) ==
    IF cg.panicked \/ ShouldDisableComments(ctx, fq_name, field_name) THEN cg
    ELSE AppendLocation(cg, Location(cg))

\* a loop that pushes an attribute once, however often it is yielded
AppendAttributesOnce(cg, attributes) ==
    Lines(cg, [k \in DOMAIN IndicesIn(attributes,
                               {i \in DOMAIN attributes :
                                   \A j \in 1..(i - 1) : attributes[j] # attributes[i]}) |->
                 Tok("attr", 0, <<>>, <<>>,
                     attributes[IndicesIn(attributes,
                                   {i \in DOMAIN attributes :
                                       \A j \in 1..(i - 1) :
                                          attributes[j] # attributes[i]})[k]])])

\* the loop of append_type_attributes .. append_field_attributes
AppendAttributes(cg, attributes) ==
    Lines(cg, [k \in DOMAIN attributes |-> Tok("attr", 0, <<>>, <<>>, attributes[k])])
AppendTypeAttributes(ctx, cg, fq_name) ==
    AppendAttributes(cg, CtxTypeAttributes(ctx, fq_name))
AppendMessageAttributes(ctx, cg, fq_name) ==
    AppendAttributes(cg, CtxMessageAttributes(ctx, fq_name))
AppendEnumAttributes(ctx, cg, fq_name) ==
    AppendAttributes(cg, CtxEnumAttributes(ctx, fq_name))
AppendFieldAttributes(ctx, cg, fq_name, field_name) ==
    AppendAttributes(cg, CtxFieldAttributes(ctx, fq_name, field_name))

\* the local path of resolve_ident: the package's segments, then type_path, the
\* first item dropped when it is empty
\* a local path that keeps the empty item that splitting an empty package gives
KeepEmptyHead(all) == all

DropEmptyHead(all) == IF all # <<>> /\ Head(all) = <<>> THEN Tail(all) ELSE all
LocalPath(cg) == DropEmptyHead(Split(cg.package, ".") \o cg.type_path)

\* a resolve_ident that skips no path element in common
NoCommonPrefix(a, b) == 0

RECURSIVE CommonPrefixLen(_, _)
CommonPrefixLen(a, b) ==
    IF a # <<>> /\ b # <<>> /\ Head(a) = Head(b)
    THEN 1 + CommonPrefixLen(Tail(a), Tail(b)) ELSE 0

\* CodeGenerator::resolve_ident
\* the tail of resolve_ident: the common prefix of the two paths is dropped, a
\* `super` goes up per remaining local segment, the remaining segments go down
RelativeIdent(local_path, ident_path, ident_type, n) ==
    Join([k \in 1..(Len(local_path) - n) |-> <<"super">>]
         \o [k \in 1..(Len(ident_path) - n) |-> ToSnake(ident_path[n + k])]
         \o <<ToUpperCamel(ident_type)>>, "::")
ResolveLocalIdent(local_path, all) ==
    RelativeIdent(local_path, Front(all), Last(all), CommonPrefixLen(local_path, Front(all)))

\* a resolve_ident that goes by the local path alone
ResolveIdentLocally(ctx, cg, pb_ident) ==
    ResolveLocalIdent(LocalPath(cg), Split(Tail(pb_ident), "."))

ResolveIdent(ctx, cg, pb_ident) ==
    UnwrapOr(CtxResolveExternIdent(ctx, pb_ident),
             ResolveLocalIdent(LocalPath(cg), Split(Tail(pb_ident), ".")))

\* the types that resolve_type resolves through resolve_ident
PathTypes == {"group", "message"}

\* CodeGenerator::resolve_type
ResolveType(ctx, cg, field, fq_message_name) ==
    CASE field.type \in {"int32", "enum"} -> <<"i32">>
      [] field.type = "bool" -> <<"bool">>
      [] field.type = "string" -> <<"alloc::string::String">>
      [] field.type = "bytes" ->
            BytesTypeRustType(CtxBytesType(ctx, fq_message_name, field.name))
      [] field.type \in PathTypes -> ResolveIdent(ctx, cg, field.type_name)

\* an optional that looks at the label alone
OptionalByLabel(cg, field) == field.label = "optional"

\* CodeGenerator::optional
Optional(cg, field) ==
    IF field.proto3_optional THEN TRUE
    ELSE IF field.label # "optional" THEN FALSE
    ELSE IF field.type = "message" THEN TRUE
    ELSE cg.syntax = "proto2"

\* the wrappers append_field pushes around the type, outermost first
FieldWrappers(repeated, optional, boxed) ==
    (IF repeated THEN <<"Vec">> ELSE IF optional THEN <<"Option">> ELSE <<>>)
    \o (IF boxed THEN <<"Box">> ELSE <<>>)

\* CodeGenerator::append_field; field is [descriptor, path_index]
AppendField(ctx, cg, fq_message_name, field) ==
    Lines(AppendFieldAttributes(ctx,
              AppendDoc(ctx, cg, fq_message_name, Some(field.descriptor.name)),
              fq_message_name, field.descriptor.name),
          <<Tok("field", 0, ToSnake(field.descriptor.name),
                FieldWrappers(field.descriptor.label = "repeated",
                              Optional(cg, field.descriptor),
                              ShouldBoxMessageField(ctx, fq_message_name, field.descriptor)),
                ResolveType(ctx, cg, field.descriptor, fq_message_name))>>)

\* CodeGenerator::append_map_field
AppendMapField(ctx, cg, fq_message_name, field, key, value) ==
    Lines(AppendFieldAttributes(ctx,
              AppendDoc(ctx, cg, fq_message_name, Some(field.descriptor.name)),
              fq_message_name, field.descriptor.name),
          <<Tok("map_field", 0, ToSnake(field.descriptor.name),
                MapTypeRustType(CtxMapType(ctx, fq_message_name, field.descriptor.name)),
                ResolveType(ctx, cg, key, fq_message_name) \o <<", ">>
                  \o ResolveType(ctx, cg, value, fq_message_name))>>)

\* CodeGenerator::append_oneof_field; oneof is [descriptor, fields, path_index],
\* its descriptor the name of the oneof
AppendOneofField(ctx, cg, message_name, fq_message_name, oneof) ==
    Text(AppendFieldAttributes(ctx, PushIndent(AppendDoc(ctx, cg, fq_message_name, None)),
                               fq_message_name, oneof.descriptor),
         "oneof_field", ToSnake(oneof.descriptor), <<"Option">>,
         ToSnake(message_name) \o <<"::">> \o ToUpperCamel(oneof.descriptor))

\* the body of the loop of append_oneof over the members of the oneof
AppendOneofVariant(ctx, cg, fq_message_name, oneof, field) ==
    Text(AppendFieldAttributes(ctx,
             PushIndent(PathPop(AppendDoc(ctx, PathPush(cg, field.path_index),
                                          fq_message_name, Some(field.descriptor.name)))),
             fq_message_name \o <<".">> \o oneof.descriptor, field.descriptor.name),
         "oneof_variant", ToUpperCamel(field.descriptor.name),
         IF ShouldBoxOneofField(ctx, fq_message_name, oneof.descriptor, field.descriptor)
         THEN <<"Box">> ELSE <<>>,
         ResolveType(ctx, cg, field.descriptor, fq_message_name))

\* the loop of append_oneof over the members of the oneof
RECURSIVE AppendOneofVariants(_, _, _, _, _)
AppendOneofVariants(ctx, cg, fq_message_name, oneof, fields) ==
    IF cg.panicked \/ fields = <<>> THEN cg
    ELSE AppendOneofVariants(ctx,
            AppendOneofVariant(ctx, cg, fq_message_name, oneof, Head(fields)),
            fq_message_name, oneof, Tail(fields))

\* append_oneof up to the loop: the doc, the attributes and the head of the enum
AppendOneofHead(ctx, cg, fq_message_name, oneof) ==
    Lines(PushIndent(
            AppendEnumAttributes(ctx,
              AppendTypeAttributes(ctx,
                PathPop(PathPop(AppendDoc(ctx, PathPush(PathPush(cg, 8), oneof.path_index),
                                          fq_message_name, None))),
                fq_message_name \o <<".">> \o oneof.descriptor),
              fq_message_name \o <<".">> \o oneof.descriptor)),
          <<Fixed("derive")>>)

\* CodeGenerator::append_oneof
AppendOneof(ctx, cg, fq_message_name, oneof) ==
    Lines(PathPop(DepthDec(
            AppendOneofVariants(ctx,
                DepthInc(PathPush(
                    Lines(AppendOneofHead(ctx, cg, fq_message_name, oneof),
                          <<Named("oneof_enum", ToUpperCamel(oneof.descriptor))>>), 2)),
                fq_message_name, oneof, oneof.fields))),
          <<Fixed("close")>>)

\* ident::strip_enum_prefix: the prefix is stripped when a capital follows it
StripEnumPrefix(prefix, name) ==
    IF /\ StartsWith(name, prefix)
       /\ Len(name) > Len(prefix)
       /\ IsUpper(name[Len(prefix) + 1])
    THEN SubSeq(name, Len(prefix) + 1, Len(name))
    ELSE name

\* a turn that does not look the generated name up in generated_names
EnumValueInsertUnchecked(acc, value, idx, generated_variant_name) ==
    [acc EXCEPT
        !.numbers = @ \cup {value[2]},
        !.mappings = Append(@, [path_idx |-> idx - 1,
                                proto_name |-> value[1],
                                proto_number |-> value[2],
                                generated_variant_name |-> generated_variant_name])]

\* the end of a turn of the loop of build_enum_value_mappings, the name generated
EnumValueInsert(acc, value, idx, generated_variant_name) ==
    IF generated_variant_name \in DOMAIN acc.generated_names
    THEN [acc EXCEPT !.panic = TRUE, !.numbers = @ \cup {value[2]},
                     !.fatal = Fatal("overlap", generated_variant_name,
                                     acc.generated_names[generated_variant_name], value[1])]
    ELSE [acc EXCEPT
            !.numbers = @ \cup {value[2]},
            !.generated_names = (generated_variant_name :> value[1]) @@ @,
            !.mappings = Append(@, [path_idx |-> idx - 1,
                                    proto_name |-> value[1],
                                    proto_number |-> value[2],
                                    generated_variant_name |-> generated_variant_name])]

\* a turn that does not skip a value whose number was seen
EnumValueStepKeepsAliases(generated_enum_name, do_strip_enum_prefix, acc, value, idx) ==
    IF acc.panic THEN acc
    ELSE EnumValueInsert(acc, value, idx,
            IF do_strip_enum_prefix
            THEN StripEnumPrefix(generated_enum_name, ToUpperCamel(value[1]))
            ELSE ToUpperCamel(value[1]))

\* one turn of the loop of build_enum_value_mappings; value is <<name, number>>
EnumValueStep(generated_enum_name, do_strip_enum_prefix, acc, value, idx) ==
    IF acc.panic \/ value[2] \in acc.numbers THEN acc
    ELSE EnumValueInsert(acc, value, idx,
            IF do_strip_enum_prefix
            THEN StripEnumPrefix(generated_enum_name, ToUpperCamel(value[1]))
            ELSE ToUpperCamel(value[1]))

\* the loop of build_enum_value_mappings, from the value at idx
RECURSIVE EnumValueLoop(_, _, _, _, _)
EnumValueLoop(generated_enum_name, do_strip_enum_prefix, acc, enum_values, idx) ==
    IF idx > Len(enum_values) \/ acc.panic THEN acc
    ELSE EnumValueLoop(generated_enum_name, do_strip_enum_prefix,
            EnumValueStep(generated_enum_name, do_strip_enum_prefix, acc,
                          enum_values[idx], idx),
            enum_values, idx + 1)

\* build_enum_value_mappings: [panic, fatal, mappings]
BuildEnumValueMappings(generated_enum_name, do_strip_enum_prefix, enum_values) ==
    EnumValueLoop(generated_enum_name, do_strip_enum_prefix,
        [panic |-> FALSE, fatal |-> NoFatal, numbers |-> {}, generated_names |-> <<>>,
         mappings |-> <<>>],
        enum_values, 1)

\* the loop of append_enum over the variants
RECURSIVE AppendEnumVariants(_, _, _, _)
AppendEnumVariants(ctx, cg, fq, vm) ==
    IF cg.panicked \/ vm = <<>> THEN cg
    ELSE AppendEnumVariants(ctx,
            PathPop(Lines(
                AppendFieldAttributes(ctx,
                    AppendDoc(ctx, PathPush(cg, Head(vm).path_idx), fq,
                              Some(Head(vm).proto_name)),
                    fq, Head(vm).proto_name),
                <<Tok("variant", Head(vm).proto_number, Head(vm).generated_variant_name,
                      <<>>, <<>>)>>)),
            fq, Tail(vm))

\* arms that carry the generated name where the name of the schema belongs
EnumArmsGenerated(kind, vm) ==
    [k \in DOMAIN vm |->
        Tok(kind, 0, vm[k].generated_variant_name, <<>>, vm[k].generated_variant_name)]

\* the arms of as_str_name and of from_str_name, one per variant
EnumArms(kind, vm) ==
    [k \in DOMAIN vm |-> Tok(kind, 0, vm[k].generated_variant_name, <<>>, vm[k].proto_name)]

\* append_enum from the end of the variants: the `impl` with its two functions
AppendEnumImpl(cg, enum_name, vm) ==
    Lines(DepthDec(PathPop(
      Lines(DepthDec(
        Lines(DepthDec(
          Lines(DepthInc(
            Lines(DepthInc(
              Lines(DepthDec(
                Lines(DepthDec(
                  Lines(DepthInc(
                    Lines(DepthInc(
                      Lines(PathPush(DepthInc(
                        Lines(cg, <<Fixed("close"), Named("impl", enum_name)>>)), 2),
                        <<Fixed("as_str_doc1"), Fixed("as_str_doc2"), Fixed("as_str_doc3"),
                          Fixed("as_str_doc4"), Fixed("as_str_name")>>)),
                      <<Fixed("match_self")>>)),
                    EnumArms("arm_name", vm))),
                  <<Fixed("close")>>)),
                <<Fixed("close"), Fixed("from_str_doc"), Fixed("from_str_name")>>)),
              <<Fixed("match_value")>>)),
            Append(EnumArms("arm_value", vm), Fixed("arm_none")))),
          <<Fixed("close")>>)),
        <<Fixed("close")>>))),
      <<Fixed("close")>>)

\* append_enum from the head of the enum on, the mappings built
AppendEnumMapped(ctx, cg, fq, enum_name, built) ==
    IF built.panic THEN PanicWith(cg, built.fatal)
    ELSE AppendEnumImpl(
            DepthDec(PathPop(AppendEnumVariants(ctx, PathPush(DepthInc(cg), 2), fq,
                                                built.mappings))),
            enum_name, built.mappings)

\* append_enum after the extern check
AppendEnumBody(ctx, cg, desc) ==
    AppendEnumMapped(ctx,
        Lines(AppendEnumAttributes(ctx,
                 AppendTypeAttributes(ctx,
                    AppendDoc(ctx, cg, FqName(cg, desc.name), None),
                    FqName(cg, desc.name)),
                 FqName(cg, desc.name)),
              <<Fixed("derive"), Named("enum", ToUpperCamel(desc.name))>>),
        FqName(cg, desc.name), ToUpperCamel(desc.name),
        BuildEnumValueMappings(ToUpperCamel(desc.name), ctx.config.strip_enum_prefix,
                               desc.value))

\* the map entry types of the first partition_map() of append_message: whether
\* building them panics (an index out of bounds, an assert_eq!), and the map from
\* the entry's name to its <<key, value>>, a later entry replacing an earlier one
\* a partition that takes the first two fields of an entry whatever their names
MapEntryUnchecked(entries) == \E k \in DOMAIN entries : Len(entries[k].field) < 2

MapEntryPanics(entries) ==
    \E k \in DOMAIN entries :
        \/ Len(entries[k].field) < 2
        \/ entries[k].field[1].name # <<"k","e","y">>
        \/ entries[k].field[2].name # <<"v","a","l","u","e">>
MapTypesOf(fq_message_name, entries) ==
    [name \in {fq_message_name \o <<".">> \o entries[k].name : k \in DOMAIN entries} |->
        <<entries[CHOOSE k \in DOMAIN entries :
                    /\ fq_message_name \o <<".">> \o entries[k].name = name
                    /\ \A j \in DOMAIN entries :
                          fq_message_name \o <<".">> \o entries[j].name = name => j <= k
                 ].field[1],
          entries[CHOOSE k \in DOMAIN entries :
                    /\ fq_message_name \o <<".">> \o entries[k].name = name
                    /\ \A j \in DOMAIN entries :
                          fq_message_name \o <<".">> \o entries[j].name = name => j <= k
                 ].field[2]>>]

\* a partition that sends every field with a oneof index to its oneof
InStructWithoutIndex(f) == f.oneof_index = -1

\* the second partition_map(): whether the field at i goes to the struct
InStruct(f) == f.proto3_optional \/ f.oneof_index = -1
\* Field::new for the fields at the indices idxs
AsFields(field, idxs) ==
    [k \in DOMAIN idxs |-> [descriptor |-> field[idxs[k]], path_index |-> idxs[k] - 1]]
\* the fields that the multimap holds under the oneof index o
MembersOf(field, o) ==
    IndicesIn(field, {i \in DOMAIN field : ~ InStruct(field[i]) /\ field[i].oneof_index = o})
\* the filter_map(): the oneofs with members, in declaration order
OneofsOf(message, decls) ==
    [k \in DOMAIN decls |->
        [descriptor |-> message.oneof_decl[decls[k]],
         fields |-> AsFields(message.field, MembersOf(message.field, decls[k] - 1)),
         path_index |-> decls[k] - 1]]
NormalTypes(nt, normal) ==
    [k \in DOMAIN normal |-> [desc |-> nt[normal[k]], idx |-> normal[k] - 1]]

\* the two partition_map() and the filter_map() that open append_message:
\* [panic, nested_types, map_types, fields, oneof_fields]
MessageParts(message, fq_message_name) ==
    [panic |-> MapEntryPanics(SelectSeq(message.nested_type, LAMBDA n : n.map_entry)),
     nested_types |-> NormalTypes(message.nested_type,
                         IndicesIn(message.nested_type,
                                   {i \in DOMAIN message.nested_type :
                                       ~ message.nested_type[i].map_entry})),
     map_types |-> IF MapEntryPanics(SelectSeq(message.nested_type, LAMBDA n : n.map_entry))
                   THEN <<>>
                   ELSE MapTypesOf(fq_message_name,
                                   SelectSeq(message.nested_type, LAMBDA n : n.map_entry)),
     fields |-> AsFields(message.field,
                         IndicesIn(message.field,
                                   {i \in DOMAIN message.field : InStruct(message.field[i])})),
     oneof_fields |-> OneofsOf(message,
                         SelectSeq(Indices(message.oneof_decl),
                                   LAMBDA i : MembersOf(message.field, i - 1) # <<>>))]

\* CodeGenerator::push_mod and pop_mod
PushMod(cg, module) ==
    DepthInc([Lines(cg, <<Named("mod_doc", module), Named("mod", ToSnake(module))>>)
                EXCEPT !.type_path = Append(@, module)])
\* a pop_mod that leaves type_path as it is
PopModKeepsTypePath(cg) == Lines(DepthDec(cg), <<Fixed("close")>>)

PopMod(cg) ==
    Lines([DepthDec(cg) EXCEPT !.type_path = IF @ = <<>> THEN @ ELSE Front(@)],
          <<Fixed("close")>>)

\* whether append_message opens a nested module
HasNested(message, parts) ==
    message.enum_type # <<>> \/ parts.nested_types # <<>> \/ parts.oneof_fields # <<>>

\* the loop of append_message over the fields of the struct
RECURSIVE AppendFields(_, _, _, _, _)
AppendFields(ctx, cg, fq, map_types, fields) ==
    IF cg.panicked \/ fields = <<>> THEN cg
    ELSE AppendFields(ctx,
            PathPop(IF Head(fields).descriptor.type_name \in DOMAIN map_types
                    THEN AppendMapField(ctx, PathPush(cg, Head(fields).path_index), fq,
                            Head(fields),
                            map_types[Head(fields).descriptor.type_name][1],
                            map_types[Head(fields).descriptor.type_name][2])
                    ELSE AppendField(ctx, PathPush(cg, Head(fields).path_index), fq,
                                     Head(fields))),
            fq, map_types, Tail(fields))

\* the loop of append_message over the oneof fields of the struct
RECURSIVE AppendOneofFields(_, _, _, _, _)
AppendOneofFields(ctx, cg, message_name, fq, oneofs) ==
    IF cg.panicked \/ oneofs = <<>> THEN cg
    ELSE AppendOneofFields(ctx,
            PathPop(AppendOneofField(ctx, PathPush(cg, Head(oneofs).path_index),
                                     message_name, fq, Head(oneofs))),
            message_name, fq, Tail(oneofs))

\* the loop of append_message over the oneofs, inside the nested module
RECURSIVE AppendOneofs(_, _, _, _)
AppendOneofs(ctx, cg, fq_message_name, oneofs) ==
    IF cg.panicked \/ oneofs = <<>> THEN cg
    ELSE AppendOneofs(ctx, AppendOneof(ctx, cg, fq_message_name, Head(oneofs)),
                      fq_message_name, Tail(oneofs))

\* append_message: the struct, from the doc to its closing brace
AppendStruct(ctx, cg, message, parts, fq) ==
    Lines(DepthDec(PathPop(
            AppendOneofFields(ctx,
                PathPush(PathPop(
                    AppendFields(ctx,
                        PathPush(DepthInc(
                            Lines(AppendMessageAttributes(ctx,
                                     AppendTypeAttributes(ctx, AppendDoc(ctx, cg, fq, None), fq),
                                     fq),
                                  <<Fixed("derive"),
                                    Named("struct", ToUpperCamel(message.name))>>)), 2),
                        fq, parts.map_types, parts.fields)), 8),
                message.name, fq, parts.oneof_fields))),
          <<Fixed("close")>>)

\* append_message: push_mod and `use super::*`, when there is anything nested
OpenNested(cg, message, parts) ==
    IF HasNested(message, parts)
    THEN Lines(PathPush(PushMod(cg, message.name), 3), <<Fixed("use_super")>>)
    ELSE cg

\* append_message from the extern check to the loop over the nested messages
AppendMessageHead(ctx, cg, message, parts) ==
    IF parts.panic THEN Panic(cg)
    ELSE OpenNested(AppendStruct(ctx, cg, message, parts, FqName(cg, message.name)),
                    message, parts)

\* append_message after the loop over the nested enums
AppendMessageTail(ctx, cg, fq_message_name, oneof_fields) ==
    PopMod(AppendOneofs(ctx, cg, fq_message_name, oneof_fields))


\* ------------------------------------------- the service generator (lib.rs)
\* The ServiceGenerator of the tests: it writes a trait per service like
\* ServiceTraitGenerator and records its callbacks like MockServiceGenerator.
\* service is [name, package, comments, methods]
SgGenerate(state, buf, service) ==
    [state |-> Append(state, [op |-> "generate", arg |-> service.name]),
     buf |-> buf \o <<Tok("trait", 0, service.name, <<>>, service.comments)>>
                 \o [k \in DOMAIN service.methods |->
                       Tok("fn", 0, service.methods[k].name, <<>>,
                           service.methods[k].input_type \o <<" -> ">>
                             \o service.methods[k].output_type)]
                 \o <<Tok("close", 0, <<>>, <<>>, <<>>)>>]
SgFinalize(state, buf) ==
    [state |-> Append(state, [op |-> "finalize", arg |-> <<>>]),
     buf |-> Append(buf, Tok("utils", 0, <<>>, <<>>, <<>>))]
SgFinalizePackage(state, buf, package) ==
    [state |-> Append(state, [op |-> "finalize_package", arg |-> package]),
     buf |-> Append(buf, Tok("finalize_package", 0, package, <<>>, <<>>))]

\* the comments of a location, empty when there is none
CommentsOrDefault(loc) == IF IsSome(loc.v) THEN Unwrap(loc.v).comment ELSE <<>>

\* the Service that push_service builds, its comments and its methods'
ServiceOf(ctx, cg, service) ==
    [name |-> ToUpperCamel(service.name), package |-> cg.package,
     comments |-> CommentsOrDefault(Location(cg)),
     methods |-> [k \in DOMAIN service.method |->
                    [name |-> ToSnake(service.method[k][1]),
                     comments |-> CommentsOrDefault(Location(PathPush(PathPush(cg, 2), k - 1))),
                     input_type |-> ResolveIdent(ctx, cg, service.method[k][2]),
                     output_type |-> ResolveIdent(ctx, cg, service.method[k][3])]]]

\* whether a location() of push_service panics
ServicePanics(cg, service) ==
    \/ Location(cg).panic
    \/ \E k \in DOMAIN service.method : Location(PathPush(PathPush(cg, 2), k - 1)).panic

\* the call of the generator that ends push_service; out is its [state, buf]
Generated(acc, out) == [cg |-> [acc.cg EXCEPT !.buf = out.buf], sg |-> out.state]

\* CodeGenerator::push_service; acc is [cg, sg], service a ServiceDescriptorProto
PushService(ctx, acc, service) ==
    IF acc.cg.panicked THEN acc
    ELSE IF ServicePanics(acc.cg, service)
    THEN [acc EXCEPT !.cg = PanicWith(@, Fatal("location", <<>>, <<>>, <<>>))]
    ELSE Generated(acc, SgGenerate(acc.sg, acc.cg.buf, ServiceOf(ctx, acc.cg, service)))

\* the path.push(idx), push_service and path.pop() of one service
AccPathPop(acc) == [acc EXCEPT !.cg = PathPop(@)]
PushServiceAt(ctx, acc, service, idx) ==
    AccPathPop(PushService(ctx, [acc EXCEPT !.cg = PathPush(@, idx)], service))

\* the loop of CodeGenerator::generate over the services, from the service at k
RECURSIVE PushServices(_, _, _, _)
PushServices(ctx, acc, services, k) ==
    IF k > Len(services) \/ acc.cg.panicked THEN acc
    ELSE PushServices(ctx, PushServiceAt(ctx, acc, services[k], k - 1), services, k + 1)

\* service_generator.finalize(buf) and the path.pop() that follows it
FinalizeServices(acc) ==
    IF acc.cg.panicked THEN acc
    ELSE [cg |-> PathPop([acc.cg EXCEPT !.buf = SgFinalize(acc.sg, @).buf]),
          sg |-> SgFinalize(acc.sg, acc.cg.buf).state]

\* an end of generate that leaves a file without services alone
GenerateServicesIfAny(ctx, cg, sg, file) ==
    IF ~ ctx.config.service_generator \/ file.service = <<>> THEN [cg |-> cg, sg |-> sg]
    ELSE FinalizeServices(PushServices(ctx, [cg |-> PathPush(cg, 6), sg |-> sg],
                                       file.service, 1))

\* the end of CodeGenerator::generate: the services and finalize
GenerateServices(ctx, cg, sg, file) ==
    IF ~ ctx.config.service_generator THEN [cg |-> cg, sg |-> sg]
    ELSE FinalizeServices(PushServices(ctx, [cg |-> PathPush(cg, 6), sg |-> sg],
                                       file.service, 1))

\* a start of generate that writes nothing
GenerateStartBare(file, buf) ==
    PathPush([package |-> file.package, type_path |-> <<>>,
              source_info |-> PrepareSourceInfo(file.source_code_info),
              syntax |-> file.syntax, depth |-> 0, path |-> <<>>, buf |-> buf,
              panicked |-> FALSE, fatal |-> NoFatal], 4)

\* the start of CodeGenerator::generate, to the loop over the messages
GenerateStart(file, buf) ==
    PathPush(Lines(Text([package |-> file.package, type_path |-> <<>>,
                         source_info |-> PrepareSourceInfo(file.source_code_info),
                         syntax |-> file.syntax, depth |-> 0, path |-> <<>>, buf |-> buf,
                         panicked |-> FALSE, fatal |-> NoFatal],
                        "extern_crate_alloc", <<>>, <<>>, <<>>),
                   <<Fixed("use_codec")>>), 4)

\* module.rs, Module::from_protobuf_package_name
ModuleFromPackage(package) ==
    LET parts == SelectSeq(Split(package, "."), LAMBDA x : x # <<>>)
    IN [k \in DOMAIN parts |-> ToSnake(parts[k])]


\* ---------------------------------------------------------------- inputs
\* the schema files given to the generator
\* a file without a package: T refers to U, nested in it, to V beside it and to
\* .p.M of another package; U refers to T around it and to .p.M.N; w is the one
\* member of the oneof o, s is optional in proto3 and _s is the oneof made for it
MsgU == Msg(<<"U">>,
            <<Fld(<<"t">>, "optional", "message", <<".", "T">>, -1, FALSE),
              Fld(<<"x">>, "optional", "message", <<".", "p", ".", "M", ".", "N">>, -1, FALSE)>>,
            <<>>, <<>>, <<>>, FALSE)
MsgT == Msg(<<"T">>,
            <<Fld(<<"u">>, "optional", "message", <<".", "T", ".", "U">>, -1, FALSE),
              Fld(<<"v">>, "optional", "message", <<".", "V">>, -1, FALSE),
              Fld(<<"w">>, "optional", "message", <<".", "p", ".", "M">>, 0, FALSE),
              Fld(<<"s">>, "optional", "int32", <<>>, 1, TRUE)>>,
            <<MsgU>>, <<>>, <<<<"o">>, <<"_", "s">>>>, FALSE)
MsgV == Msg(<<"V">>, <<Fld(<<"i">>, "optional", "int32", <<>>, -1, FALSE)>>,
            <<>>, <<>>, <<>>, FALSE)
FileE == File("e.proto", <<>>, "proto3", <<MsgT, MsgV>>, <<>>, <<>>, None)
\* a file that declares nothing: no message, no enum, no service
FileZ == File("z.proto", <<"z">>, "proto3", <<>>, <<>>, <<>>, None)
pM == <<".", "p", ".", "M">>
pMN == <<".", "p", ".", "M", ".", "N">>
pMGEntry == <<".", "p", ".", "M", ".", "G", "E", "n", "t", "r", "y">>
xExt == <<".", "x", ".", "E", "x", "t">>
xEn == <<".", "x", ".", "E", "n">>

MsgQ == Msg(<<"Q">>, <<>>, <<>>, <<>>, <<>>, FALSE)
MsgN == Msg(<<"N">>,
            <<Fld(<<"z">>, "optional", "message", pM, -1, FALSE)>>,
            <<MsgQ>>, <<>>, <<>>, FALSE)
MsgGEntry == Msg(<<"G", "E", "n", "t", "r", "y">>,
                 <<Fld(<<"k", "e", "y">>, "optional", "string", <<>>, -1, FALSE),
                   Fld(<<"v", "a", "l", "u", "e">>, "optional", "message", xExt, -1, FALSE)>>,
                 <<>>, <<>>, <<>>, TRUE)
EnumNe == Enm(<<"N", "e">>, << <<<<"N", "E", "_", "A">>, 0>> >>)
MsgM == Msg(<<"M">>,
            <<Fld(<<"a">>, "optional", "message", pM, -1, FALSE),
              Fld(<<"b">>, "repeated", "message", pM, -1, FALSE),
              Fld(<<"c">>, "optional", "message", xExt, -1, FALSE),
              Fld(<<"d">>, "optional", "enum", xEn, -1, FALSE),
              Fld(<<"e">>, "optional", "message", pMN, 0, FALSE),
              Fld(<<"f">>, "optional", "message", xExt, 0, FALSE),
              Fld(<<"g">>, "repeated", "message", pMGEntry, -1, FALSE),
              Fld(<<"h">>, "optional", "int32", <<>>, 1, TRUE)>>,
            <<MsgN, MsgGEntry>>, <<EnumNe>>, <<<<"o">>, <<"_", "h">>>>, FALSE)
EnumE == Enm(<<"E">>, << <<<<"E", "_", "A">>, 0>>, <<<<"E", "_", "B">>, 1>>,
                         <<<<"E", "_", "C">>, 1>> >>)
FileP1 == File("p1.proto", <<"p">>, "proto3", <<MsgM>>, <<EnumE>>,
               <<Svc(<<"S">>, << <<<<"G", "e", "t">>, pM, xExt>> >>), Svc(<<"R">>, <<>>)>>,
               None)

pB == <<".", "p", ".", "B">>
pC == <<".", "p", ".", "C">>
pD == <<".", "p", ".", "D">>
MsgB == Msg(<<"B">>, <<Fld(<<"b">>, "repeated", "message", pB, -1, FALSE)>>,
            <<>>, <<>>, <<>>, FALSE)
MsgC == Msg(<<"C">>, <<Fld(<<"q">>, "optional", "message", pD, -1, FALSE),
                       Fld(<<"n">>, "required", "int32", <<>>, -1, FALSE)>>,
            <<>>, <<>>, <<>>, FALSE)
MsgD == Msg(<<"D">>, <<Fld(<<"c">>, "optional", "message", pC, -1, FALSE)>>,
            <<>>, <<>>, <<>>, FALSE)
FileP2 == File("p2.proto", <<"p">>, "proto2", <<MsgB, MsgC, MsgD>>, <<>>,
               <<Svc(<<"T">>, <<>>)>>,
               Some(<<[path |-> <<4, 0>>, comment |-> <<"about B">>],
                      [path |-> <<4, 0, 2, 0>>, comment |-> <<>>],
                      [path |-> <<4>>, comment |-> <<"odd">>],
                      [path |-> <<4, 2, 2, 0>>, comment |-> <<"about c">>],
                      [path |-> <<4, 2>>, comment |-> <<>>],
                      [path |-> <<4, 1, 2, 1>>, comment |-> <<>>],
                      [path |-> <<4, 1, 2, 0>>, comment |-> <<"about q">>],
                      [path |-> <<4, 1>>, comment |-> <<>>],
                      [path |-> <<6, 0>>, comment |-> <<"about T">>]>>))

MsgExt == Msg(<<"E", "x", "t">>, <<>>,
              <<Msg(<<"I", "n">>, <<>>, <<>>, <<>>, <<>>, FALSE)>>, <<>>, <<>>, FALSE)
EnumEn == Enm(<<"E", "n">>, << <<<<"E", "N", "_", "A">>, 0>> >>)
FileX == File("x.proto", <<"x">>, "proto3", <<MsgExt>>, <<EnumEn>>,
              <<Svc(<<"U">>, << <<<<"P", "u", "t">>, xExt, pM>> >>)>>, None)

\* a file without services: an enum with an alias, `al_x`, that is cased like the
\* value it is an alias of; every path of the walk has its location
EnumAl == Enm(<<"A", "l">>, << <<<<"A", "L", "_", "X">>, 0>>, <<<<"a", "l", "_", "x">>, 0>>,
                            <<<<"A", "L", "_", "Y">>, 1>> >>)
FileY == File("y.proto", <<"y">>, "proto3", <<>>, <<EnumAl>>, <<>>,
              Some(<<[path |-> <<5, 0>>, comment |-> <<"about Al">>],
                     [path |-> <<5, 0, 2, 0>>, comment |-> <<"about AL_X">>],
                     [path |-> <<5, 0, 2, 1>>, comment |-> <<"about al_x">>],
                     [path |-> <<5, 0, 2, 2>>, comment |-> <<"about AL_Y">>]>>))

\* a file whose enum K has the values K_A and A, which stripping the prefix makes
\* one name, and whose source info has no location for the second of them
EnumK == Enm(<<"K">>, << <<<<"K", "_", "A">>, 0>>, <<<<"A">>, 1>> >>)
FileK == File("k.proto", <<"k">>, "proto3", <<>>, <<EnumK>>, <<>>,
              Some(<<[path |-> <<5, 0>>, comment |-> <<"about K">>],
                     [path |-> <<5, 0, 2, 0>>, comment |-> <<>>]>>))

\* a proto2 file of maps: W has a map from int32 to W and nothing else nested,
\* and optional and required fields; the entry of the map of Q has its fields in
\* the order value, key
MsgMEntry == Msg(<<"M", "E", "n", "t", "r", "y">>,
                 <<Fld(<<"k", "e", "y">>, "optional", "int32", <<>>, -1, FALSE),
                   Fld(<<"v", "a", "l", "u", "e">>, "optional", "message",
                       <<".", "q", ".", "W">>, -1, FALSE)>>,
                 <<>>, <<>>, <<>>, TRUE)
MsgMapW == Msg(<<"W">>,
            <<Fld(<<"m">>, "repeated", "message",
                  <<".", "q", ".", "W", ".", "M", "E", "n", "t", "r", "y">>, -1, FALSE),
              Fld(<<"n">>, "optional", "message", <<".", "q", ".", "W">>, -1, FALSE),
              Fld(<<"i">>, "optional", "int32", <<>>, -1, FALSE),
              Fld(<<"j">>, "required", "int32", <<>>, -1, FALSE),
              Fld(<<"l">>, "required", "message", <<".", "q", ".", "Q">>, -1, FALSE)>>,
            <<MsgMEntry>>, <<>>, <<>>, FALSE)
MsgREntry == Msg(<<"R", "E", "n", "t", "r", "y">>,
                 <<Fld(<<"v", "a", "l", "u", "e">>, "optional", "int32", <<>>, -1, FALSE),
                   Fld(<<"k", "e", "y">>, "optional", "int32", <<>>, -1, FALSE)>>,
                 <<>>, <<>>, <<>>, TRUE)
MsgMapQ == Msg(<<"Q">>,
            <<Fld(<<"r">>, "repeated", "message",
                  <<".", "q", ".", "Q", ".", "R", "E", "n", "t", "r", "y">>, -1, FALSE)>>,
            <<MsgREntry>>, <<>>, <<>>, FALSE)
FileQ == File("q.proto", <<"q">>, "proto2", <<MsgMapW, MsgMapQ>>, <<>>, <<>>, None)

Files == {FileP1, FileP2, FileX, FileY, FileK, FileZ, FileE, FileQ}

\* compile_fds: each file with the Module of its package
Request(fd) == [module |-> ModuleFromPackage(fd.package), fd |-> fd]

RECURSIVE SeqsUpTo(_, _)
SeqsUpTo(S, n) ==
    IF n = 0 THEN {<<>>}
    ELSE LET shorter == SeqsUpTo(S, n - 1)
         IN shorter \cup {Append(q, x) : q \in shorter, x \in S}

\* Config::generate takes (Module, FileDescriptorProto) pairs: a caller of it may
\* place a file in the module of another package, here x.proto in the module p
RequestIn(module, fd) == [module |-> module, fd |-> fd]

RequestInputs ==
    SeqsUpTo({Request(fd) : fd \in Files}
               \cup {RequestIn(ModuleFromPackage(<<"p">>), FileX)}, MaxRequests)

\* the extern paths and the boxed selectors the configurations are built from
rXX == <<"::", "x", "x">>
rYYExt == <<"::", "y", "y", "::", "E", "x", "t">>
rCrateN == <<"c", "r", "a", "t", "e", "::", "n", "::", "N">>
rMM == <<"::", "m", "m", "::", "M">>
rXXEn == <<"::", "x", "x", "::", "E", "n">>

\* a configuration of attributes: several selectors match the message .p.M, its
\* field a, its oneof o and the enum .p.E, some of them with one payload
\* `.x.E` ends inside the segments of .x.En and .x.Ext, and `A` begins inside the
\* segment of .p.E.E_A
ConfigAttributes ==
    ConfigFieldAttribute(
    ConfigFieldAttribute(ConfigFieldAttribute(ConfigFieldAttribute(ConfigFieldAttribute(
    ConfigFieldAttribute(
    ConfigEnumAttribute(ConfigEnumAttribute(
    ConfigMessageAttribute(ConfigMessageAttribute(
    ConfigTypeAttribute(
    ConfigTypeAttribute(ConfigTypeAttribute(ConfigTypeAttribute(ConfigDefault,
        <<".">>, "#[t]"), <<"M">>, "#[t]"), <<".", "p", ".", "M", ".", "o">>, "#[to]"),
        <<".", "x", ".", "E">>, "#[tx]"),
        <<".", "p">>, "#[m1]"), pM, "#[m2]"),
        <<"E">>, "#[e]"), <<".">>, "#[e]"),
        <<"a">>, "#[f]"), pM, "#[g]"), pM \o <<".", "a">>, "#[f]"), <<"o">>, "#[h]"),
        <<"E", "_", "A">>, "#[v]"),
        <<"A">>, "#[va]")

\* a configuration whose selectors are all `.`
ConfigGlobal ==
    ConfigDisableComments(
        ConfigBtreeMap(
            ConfigFieldAttribute(
                ConfigEnumAttribute(
                    ConfigMessageAttribute(ConfigDefault, <<".">>, "#[m]"),
                    <<".">>, "#[e]"),
                <<".">>, "#[f]"),
            <<<<".">>>>),
        <<<<".">>>>)

ConfigInputs ==
    {ConfigDefault,
     ConfigExternPath(ConfigServiceGenerator(ConfigDefault), <<".", "x">>, rXX),
     ConfigBoxed(ConfigBoxed(ConfigBoxed(ConfigBoxed(
        ConfigExternPath(ConfigExternPath(ConfigDefault, xExt, rYYExt), pMN, rCrateN),
        <<"c">>),
        <<"M", ".", "a">>), <<".", "p", ".", "M", ".", "b">>), <<"o", ".", "f">>),
     ConfigBoxed(ConfigBoxed(
        ConfigExternPath(ConfigExternPath(ConfigServiceGenerator(ConfigDefault), pM, rMM),
                         xEn, rXXEn),
        <<"c">>), <<"D", ".", "c">>),
     ConfigExternPath(ConfigServiceGenerator(ConfigDefault), <<"x">>, rXX),
     ConfigExternPath(ConfigExternPath(ConfigServiceGenerator(ConfigDefault),
                                       <<".", "x">>, rXX), <<".", "x">>, rXX),
     ConfigExternPath(ConfigServiceGenerator(ConfigDefault),
                      <<".", "x", ".", ".", "E", "x", "t">>, rXX),
     ConfigBtreeMap(ConfigRetainEnumPrefix(ConfigDefault), <<<<"g">>>>),
     ConfigRetainEnumPrefix(ConfigServiceGenerator(ConfigDefault)),
     ConfigAttributes,
     ConfigGlobal}

\* ------------------------------------------------------- Config::generate
\* write_includes not called: no module, an empty stack, nothing written
NoIncludes == [modules |-> <<>>, next |-> 1, stack |-> <<>>, outfile |-> <<>>, at |-> "idle"]

Ctx == [config |-> config, message_graph |-> message_graph, extern_paths |-> extern_paths]

NoCodeGen == [package |-> <<>>, type_path |-> <<>>, source_info |-> None, syntax |-> "",
              depth |-> 0, path |-> <<>>, buf |-> <<>>, panicked |-> FALSE,
              fatal |-> NoFatal]
NoGraph == [edges |-> {}, nodes |-> {}]

Init ==
    /\ config \in ConfigInputs
    /\ pc = "idle"
    /\ run = 0
    /\ requests = <<>>
    /\ next_req = 1
    /\ message_graph = NoGraph
    /\ extern_paths = <<>>
    /\ modules = <<>>
    /\ packages = <<>>
    /\ code_gen = NoCodeGen
    /\ stack = <<>>
    /\ service_state = <<>>
    /\ result = None
    /\ first_result = None
    /\ ident_arg = <<>>
    /\ resolved = None
    /\ includes = NoIncludes

\* Config::generate up to its loop: the graph, the registry (`?` returns its Err)
GenerateEnter(reqs) ==
    \E built \in {ExternPathsNew(config.extern_paths)} :
       /\ requests' = reqs
       /\ run' = run + 1
       /\ next_req' = 1
       /\ modules' = <<>>
       /\ packages' = <<>>
       /\ message_graph' = MessageGraphNew([k \in DOMAIN reqs |-> reqs[k].fd])
       /\ IF built.ok
          THEN /\ extern_paths' = built.v
               /\ pc' = "files"
               /\ result' = None
          ELSE /\ extern_paths' = <<>>
               /\ pc' = "error"
               /\ result' = Some(Err(built.v))
       /\ UNCHANGED <<config, code_gen, stack, service_state, first_result, ident_arg,
                      resolved,
                   includes>>

\* the first call of Config::generate
Generate ==
    /\ pc = "idle"
    /\ \E reqs \in RequestInputs : GenerateEnter(reqs)

\* a second call of Config::generate, on the same requests and configuration
GenerateAgain ==
    /\ pc = "done"
    /\ run = 1
    /\ GenerateEnter(requests)

Top == stack[Len(stack)]
SetTop(f) == [stack EXCEPT ![Len(stack)] = f]
Frame(kind, node, entry) ==
    [kind |-> kind, pc |-> IF kind = "file" THEN "messages" ELSE "entry", i |-> 1,
     node |-> node, entry |-> entry, parts |-> <<>>, fq |-> <<>>]

\* the head of the loop of Config::generate and the start of CodeGenerator::generate
FileBegin ==
    /\ pc = "files"
    /\ stack = <<>>
    /\ next_req <= Len(requests)
    /\ LET req == requests[next_req]
           buf == IF req.module \in DOMAIN modules THEN modules[req.module] ELSE <<>>
       IN /\ packages' = IF req.fd.service # <<>>
                         THEN [m \in DOMAIN packages \cup {req.module} |->
                                 IF m = req.module THEN req.fd.package ELSE packages[m]]
                         ELSE packages
          /\ modules' = IF req.module \in DOMAIN modules THEN modules
                        ELSE modules @@ (req.module :> <<>>)
          /\ code_gen' = GenerateStart(req.fd, buf)
          /\ stack' = <<Frame("file", req.fd, Cursor(NoCodeGen))>>
    /\ UNCHANGED <<config, pc, run, requests, next_req, message_graph, extern_paths,
                   service_state, result, first_result, ident_arg, resolved,
                   includes>>

walk_frame == <<config, pc, run, requests, next_req, message_graph, extern_paths, modules,
                packages, service_state, result, first_result, ident_arg, resolved,
                includes>>

\* the messages the loop of the top frame calls append_message for: [desc, idx]
ChildMessages(f) ==
    IF f.kind = "file"
    THEN [k \in DOMAIN f.node.message_type |-> [desc |-> f.node.message_type[k], idx |-> k - 1]]
    ELSE f.parts.nested_types

\* a turn of a loop over messages: path.push(idx) and the call of append_message
CallAppendMessage ==
    /\ pc = "files" /\ stack # <<>>
    /\ Top.pc = "messages"
    /\ Top.i <= Len(ChildMessages(Top))
    /\ LET child == ChildMessages(Top)[Top.i]
           cg == PathPush(code_gen, child.idx)
       IN /\ code_gen' = cg
          /\ stack' = Append(stack, Frame("message", child.desc, Cursor(cg)))
    /\ UNCHANGED walk_frame

\* whether the type the top frame is called for resolves in the extern registry
TopIsExtern == IsSome(CtxResolveExternIdent(Ctx, FqName(code_gen, Top.node.name)))

\* append_message: "Skip external types."
AppendMessageExtern ==
    /\ pc = "files" /\ stack # <<>>
    /\ Top.kind = "message" /\ Top.pc = "entry"
    /\ TopIsExtern
    /\ stack' = SetTop([Top EXCEPT !.pc = "ret"])
    /\ UNCHANGED code_gen
    /\ UNCHANGED walk_frame

\* append_message of a type that is not extern, up to its first nested call
AppendMessage ==
    /\ pc = "files" /\ stack # <<>>
    /\ Top.kind = "message" /\ Top.pc = "entry"
    /\ ~ TopIsExtern
    /\ \E fq \in {FqName(code_gen, Top.node.name)} :
       \E parts \in {MessageParts(Top.node, fq)} :
       \E cg \in {AppendMessageHead(Ctx, code_gen, Top.node, parts)} :
          /\ code_gen' = cg
          /\ stack' = SetTop([Top EXCEPT
                                !.pc = IF HasNested(Top.node, parts) THEN "messages" ELSE "ret",
                                !.parts = parts, !.fq = fq])
          /\ pc' = IF cg.panicked THEN "panic" ELSE pc
    /\ UNCHANGED <<config, run, requests, next_req, message_graph, extern_paths, modules,
                   packages, service_state, result, first_result, ident_arg, resolved,
                   includes>>

\* the end of a loop over messages: path.pop() and the path.push() of the enums
MessagesDone ==
    /\ pc = "files" /\ stack # <<>>
    /\ Top.pc = "messages"
    /\ Top.i > Len(ChildMessages(Top))
    /\ code_gen' = PathPush(PathPop(code_gen), IF Top.kind = "file" THEN 5 ELSE 4)
    /\ stack' = SetTop([Top EXCEPT !.pc = "enums", !.i = 1])
    /\ UNCHANGED walk_frame

\* a turn of a loop over enums: path.push(idx) and the call of append_enum
CallAppendEnum ==
    /\ pc = "files" /\ stack # <<>>
    /\ Top.pc = "enums"
    /\ Top.i <= Len(Top.node.enum_type)
    /\ LET cg == PathPush(code_gen, Top.i - 1)
       IN /\ code_gen' = cg
          /\ stack' = Append(stack, Frame("enum", Top.node.enum_type[Top.i], Cursor(cg)))
    /\ UNCHANGED walk_frame

\* append_enum: the early return for an extern type
AppendEnumExtern ==
    /\ pc = "files" /\ stack # <<>>
    /\ Top.kind = "enum" /\ Top.pc = "entry"
    /\ TopIsExtern
    /\ stack' = SetTop([Top EXCEPT !.pc = "ret"])
    /\ UNCHANGED code_gen
    /\ UNCHANGED walk_frame

\* append_enum of a type that is not extern
AppendEnum ==
    /\ pc = "files" /\ stack # <<>>
    /\ Top.kind = "enum" /\ Top.pc = "entry"
    /\ ~ TopIsExtern
    /\ \E cg \in {AppendEnumBody(Ctx, code_gen, Top.node)} :
          /\ code_gen' = cg
          /\ stack' = SetTop([Top EXCEPT !.pc = "ret"])
          /\ pc' = IF cg.panicked THEN "panic" ELSE pc
    /\ UNCHANGED <<config, run, requests, next_req, message_graph, extern_paths, modules,
                   packages, service_state, result, first_result, ident_arg, resolved,
                   includes>>

\* the end of a loop over enums; in append_message the oneofs and pop_mod follow
EnumsDone ==
    /\ pc = "files" /\ stack # <<>>
    /\ Top.pc = "enums"
    /\ Top.i > Len(Top.node.enum_type)
    /\ \E cg \in {IF Top.kind = "file" THEN PathPop(code_gen)
                  ELSE AppendMessageTail(Ctx, PathPop(code_gen), Top.fq,
                                         Top.parts.oneof_fields)} :
          /\ code_gen' = cg
          /\ stack' = SetTop([Top EXCEPT !.pc = IF Top.kind = "file" THEN "services" ELSE "ret"])
          /\ pc' = IF cg.panicked THEN "panic" ELSE pc
    /\ UNCHANGED <<config, run, requests, next_req, message_graph, extern_paths, modules,
                   packages, service_state, result, first_result, ident_arg, resolved,
                   includes>>

\* append_message or append_enum returns: the caller's path.pop() and next turn
Return ==
    /\ pc = "files" /\ stack # <<>>
    /\ Top.kind # "file" /\ Top.pc = "ret"
    /\ code_gen' = PathPop(code_gen)
    /\ stack' = [Front(stack) EXCEPT ![Len(stack) - 1].i = @ + 1]
    /\ UNCHANGED walk_frame

\* the services of the file and finalize, when a service generator is configured
Services ==
    /\ pc = "files" /\ stack # <<>>
    /\ Top.kind = "file" /\ Top.pc = "services"
    /\ \E out \in {GenerateServices(Ctx, code_gen, service_state, Top.node)} :
          /\ code_gen' = out.cg
          /\ service_state' = out.sg
          /\ pc' = IF out.cg.panicked THEN "panic" ELSE pc
    /\ stack' = SetTop([Top EXCEPT !.pc = "ret"])
    /\ UNCHANGED <<config, run, requests, next_req, message_graph, extern_paths, modules,
                   packages, result, first_result, ident_arg, resolved,
                   includes>>

\* CodeGenerator::generate returns: the text is kept unless it is empty
FileEnd ==
    /\ pc = "files" /\ stack # <<>>
    /\ Top.kind = "file" /\ Top.pc = "ret"
    /\ LET m == requests[next_req].module
       IN modules' = IF code_gen.buf = <<>>
                     THEN [k \in DOMAIN modules \ {m} |-> modules[k]]
                     ELSE [modules EXCEPT ![m] = code_gen.buf]
    /\ stack' = <<>>
    /\ next_req' = next_req + 1
    /\ UNCHANGED <<config, pc, run, requests, message_graph, extern_paths, packages,
                   code_gen, service_state, result, first_result, ident_arg, resolved,
                   includes>>

\* the orders in which a HashMap with the keys S may be iterated
Orders(S) == {o \in [1..Cardinality(S) -> S] : \A a, b \in DOMAIN o : o[a] = o[b] => a = b}

\* a turn that hands finalize_package every buffer, not the one of its module
FinalizePackageIntoAll(acc, module, package) ==
    [acc EXCEPT !.modules = [m \in DOMAIN acc.modules |->
                                SgFinalizePackage(acc.sg, acc.modules[m], package).buf],
                !.sg = SgFinalizePackage(acc.sg, <<>>, package).state]

\* one turn of `for (module, package) in packages`; acc is [modules, sg, panic]
FinalizePackageStep(acc, module, package) ==
    IF acc.panic \/ module \notin DOMAIN acc.modules THEN [acc EXCEPT !.panic = TRUE]
    ELSE LET out == SgFinalizePackage(acc.sg, acc.modules[module], package)
         IN [acc EXCEPT !.modules[module] = out.buf, !.sg = out.state]

\* `for (module, package) in packages`, the modules in the order the map yields them
RECURSIVE FinalizePackages(_, _, _)
FinalizePackages(acc, pkgs, order) ==
    IF order = <<>> THEN acc
    ELSE FinalizePackages(FinalizePackageStep(acc, Head(order), pkgs[Head(order)]),
                          pkgs, Tail(order))

\* Config::add_generated_modules
AddGeneratedModules(mods) ==
    [m \in DOMAIN mods |-> <<Tok("generated", 0, <<>>, <<>>, <<>>)>> \o mods[m]]

\* Config::generate after its loop: finalize_package per package, in the order the
\* HashMap yields them, then the header of every module
GenerateFinish ==
    /\ pc = "files"
    /\ stack = <<>>
    /\ next_req > Len(requests)
    /\ \E order \in Orders(DOMAIN packages) :
       \E acc \in {IF config.service_generator
                   THEN FinalizePackages(
                            [modules |-> modules, sg |-> service_state, panic |-> FALSE],
                            packages, order)
                   ELSE [modules |-> modules, sg |-> service_state, panic |-> FALSE]} :
       \E out \in {AddGeneratedModules(acc.modules)} :
             /\ modules' = out
             /\ service_state' = acc.sg
             /\ pc' = IF acc.panic THEN "panic" ELSE "done"
             /\ result' = IF acc.panic THEN None ELSE Some(Ok(out))
             /\ first_result' = IF run = 1 /\ ~ acc.panic THEN Some(Ok(out)) ELSE first_result
    /\ UNCHANGED <<config, run, requests, next_req, message_graph, extern_paths, packages,
                   code_gen, stack, ident_arg, resolved,
                   includes>>

Next ==
    \/ Generate
    \/ GenerateAgain
    \/ FileBegin
    \/ CallAppendMessage
    \/ AppendMessageExtern
    \/ AppendMessage
    \/ MessagesDone
    \/ CallAppendEnum
    \/ AppendEnumExtern
    \/ AppendEnum
    \/ EnumsDone
    \/ Return
    \/ Services
    \/ FileEnd
    \/ GenerateFinish

Spec == Init /\ [][Next]_vars


\* ------------------------------------------- the registry on its own
\* Config::extern_path called up to MaxExternPaths times, ExternPaths::new on what
\* was configured, and then calls of ExternPaths::resolve_ident.
pF == <<".", "f">>
pFB == <<".", "f", ".", "b">>
pFFz == <<".", "f", ".", "F", "z">>
pAB == <<".", "a", ".", "b">>
rFa == <<"::", "f", "a">>
rFb == <<"::", "f", "b">>
rFcFz == <<"::", "f", "c", "::", "F", "z">>
rCrateAb == <<"c", "r", "a", "t", "e", "::", "A", "b">>

\* the (proto_path, rust_path) pairs Config::extern_path is called with: `.f` comes
\* twice, and two proto paths are invalid (no leading '.', an empty last segment)
ExternPathInputs ==
    {<<pF, rFa>>, <<pFB, rFb>>, <<pFFz, rFcFz>>, <<pAB, rCrateAb>>, <<pF, rFb>>,
     <<<<"f">>, rFa>>, <<<<".", "f", ".">>, rFa>>}

\* the names ExternPaths::resolve_ident is called with
ResolveInputs ==
    {pF, pFB, pFFz, pAB,
     <<".", "f", ".", "F", "o">>,
     <<".", "f", ".", "b", ".", "B", "a">>,
     <<".", "f", ".", "F", "z", ".", "B", "a">>,
     <<".", "f", ".", "b", ".", "q", "R", ".", "B", "a">>,
     <<".", "a", ".", "b", ".", "c", "D", ".", "E", "f">>,
     <<".", "a">>,
     <<".", "g", ".", "H">>}

InitExtern ==
    /\ config = ConfigDefault
    /\ pc = "idle"
    /\ run = 0
    /\ requests = <<>>
    /\ next_req = 1
    /\ message_graph = NoGraph
    /\ extern_paths = <<>>
    /\ modules = <<>>
    /\ packages = <<>>
    /\ code_gen = NoCodeGen
    /\ stack = <<>>
    /\ service_state = <<>>
    /\ result = None
    /\ first_result = None
    /\ ident_arg = <<>>
    /\ resolved = None
    /\ includes = NoIncludes

\* Config::extern_path
ExternPath ==
    /\ pc = "idle"
    /\ Len(config.extern_paths) < MaxExternPaths
    /\ \E pair \in ExternPathInputs : config' = ConfigExternPath(config, pair[1], pair[2])
    /\ UNCHANGED <<pc, run, requests, next_req, message_graph, extern_paths, modules,
                   packages, code_gen, stack, service_state, result, first_result,
                   ident_arg, resolved,
                   includes>>

\* ExternPaths::new on the configured pairs
ExternNew ==
    /\ pc = "idle"
    /\ \E built \in {ExternPathsNew(config.extern_paths)} :
          IF built.ok
          THEN /\ extern_paths' = built.v
               /\ pc' = "registry"
               /\ result' = None
          ELSE /\ extern_paths' = <<>>
               /\ pc' = "error"
               /\ result' = Some(Err(built.v))
    /\ UNCHANGED <<config, run, requests, next_req, message_graph, modules, packages,
                   code_gen, stack, service_state, first_result, ident_arg, resolved,
                   includes>>

\* ExternPaths::resolve_ident(pb_ident); resolved holds Some(what it returned)
ResolveIdentCall ==
    /\ pc = "registry"
    /\ \E pb_ident \in ResolveInputs :
          /\ ident_arg' = pb_ident
          /\ resolved' = Some(ResolveExternIdent(extern_paths, pb_ident))
    /\ UNCHANGED <<config, pc, run, requests, next_req, message_graph, extern_paths,
                   modules, packages, code_gen, stack, service_state, result, first_result,
                   includes>>

NextExtern == ExternPath \/ ExternNew \/ ResolveIdentCall

SpecExtern == InitExtern /\ [][NextExtern]_vars


\* ------------------------------------------------ properties: the registry
\* the registered path p is a proper prefix of name that ends where a segment ends
SegmentPrefix(p, name) ==
    /\ Len(p) < Len(name)
    /\ SubSeq(name, 1, Len(p)) = p
    /\ name[Len(p) + 1] = "."

\* the registered paths that are such prefixes of the name resolved last
RegisteredPrefixes == {p \in DOMAIN extern_paths : SegmentPrefix(p, ident_arg)}
LongestPrefix ==
    CHOOSE p \in RegisteredPrefixes : \A q \in RegisteredPrefixes : Len(q) <= Len(p)

\* resolve_ident has returned, for a name that is not registered itself but has a
\* registered prefix
PrefixHit ==
    /\ pc = "registry"
    /\ IsSome(resolved)
    /\ ident_arg \notin DOMAIN extern_paths
    /\ RegisteredPrefixes # {}

\* the segments of the name after the longest registered prefix
RemainingSegments ==
    Split(SubSeq(ident_arg, Len(LongestPrefix) + 2, Len(ident_arg)), ".")

C5_FromLongest ==
    PrefixHit =>
        Unwrap(resolved) = Some(RebuildIdent(extern_paths[LongestPrefix],
                                 SubSeq(ident_arg, Len(LongestPrefix) + 2, Len(ident_arg))))
C5_Pure ==
    pc = "registry" =>
        /\ extern_paths' = extern_paths
        /\ (IsSome(resolved) /\ ident_arg' = ident_arg) => resolved' = resolved

\* C5: when registered paths are segment-boundary prefixes of the name, the answer of
\* resolve_ident is built from the longest of them; a call leaves the registry as
\* it was, and a second call with the same name returns what the first returned.
C5_LongestPrefixWins == [](C5_FromLongest) /\ [][C5_Pure]_vars

\* two registered prefixes of the name, a shorter and a longer one, and the answer
C5_TwoPrefixes ==
    /\ PrefixHit
    /\ Cardinality(RegisteredPrefixes) >= 2
    /\ IsSome(Unwrap(resolved))

\* C6: a name that is itself registered resolves to its registered target, as
\* registered, whatever registered prefixes it has.
C6_ExactMatchUnmodified ==
    (pc = "registry" /\ IsSome(resolved) /\ ident_arg \in DOMAIN extern_paths)
        => Unwrap(resolved) = Some(extern_paths[ident_arg])

\* a registered name with a registered proper prefix and a target with a capital,
\* which the casing of a prefix hit would have changed
C6_ExactOverPrefix ==
    /\ pc = "registry"
    /\ IsSome(resolved)
    /\ ident_arg \in DOMAIN extern_paths
    /\ RegisteredPrefixes # {}
    /\ \E k \in DOMAIN extern_paths[ident_arg] : IsUpper(extern_paths[ident_arg][k])
    /\ Unwrap(resolved) = Some(extern_paths[ident_arg])

\* the remaining segments but the last in namespace casing, the last in
\* declared-type casing
CasedRemaining ==
    [k \in 1..(Len(RemainingSegments) - 1) |-> ToSnake(RemainingSegments[k])]
    \o <<ToUpperCamel(Last(RemainingSegments))>>

\* C7 as stated: on a prefix hit the answer is the registered target as registered,
\* then the remaining segments cased.
C7_TargetAsRegistered ==
    PrefixHit =>
        Unwrap(resolved) = Some(Join(<<extern_paths[LongestPrefix]>> \o CasedRemaining, "::"))

\* the "::"-segments of a registered target, each in namespace casing but a leading
\* `crate`
CasedTarget(rust_path) ==
    [k \in DOMAIN Split(rust_path, "::") |->
        IF k = 1 /\ Split(rust_path, "::")[k] = KwCrate THEN KwCrate
        ELSE ToSnake(Split(rust_path, "::")[k])]

\* C7, amended: on a prefix hit the answer is the registered target with each of its
\* "::"-segments in namespace casing, a leading `crate` kept as it is, then the
\* remaining segments in namespace casing but the last, in declared-type casing.
C7_TargetNamespaceCased ==
    PrefixHit =>
        Unwrap(resolved) = Some(Join(CasedTarget(extern_paths[LongestPrefix])
                                     \o CasedRemaining, "::"))

\* a prefix hit on a target that has a segment with a capital
C7_CapitalInTarget ==
    /\ PrefixHit
    /\ \E k \in DOMAIN extern_paths[LongestPrefix] : IsUpper(extern_paths[LongestPrefix][k])
    /\ Len(RemainingSegments) >= 2
    /\ Unwrap(resolved) # Some(Join(<<extern_paths[LongestPrefix]>> \o CasedRemaining, "::"))


\* ------------------------------------------------ properties: the generator
\* a call of append_message or append_enum, or CodeGenerator::generate, is about
\* to return
Returning == pc = "files" /\ stack # <<>> /\ Top.pc = "ret"

\* C1: append_message and append_enum return with path, type_path and depth as they
\* were at entry, the early return for an extern type included; when generate is
\* done with a file, path and type_path are empty and depth is 0.
C1_CursorRestored ==
    Returning =>
        IF Top.kind = "file"
        THEN code_gen.path = <<>> /\ code_gen.type_path = <<>> /\ code_gen.depth = 0
        ELSE Cursor(code_gen) = Top.entry

\* a nested message that has opened a module of its own returns
C1_NestedModuleClosed ==
    /\ Returning
    /\ Top.kind = "message"
    /\ Top.fq # <<>>
    /\ HasNested(Top.node, Top.parts)
    /\ Top.entry.type_path # <<>>
    /\ Cursor(code_gen) = Top.entry

\* C2: a second Config::generate on the same requests and configuration returns the
\* map of the first, whatever the order in which the HashMap of packages is
\* iterated in either run.
C2_SameTextTwice == (pc = "done" /\ run = 2) => result = first_result

\* two runs done over two modules with services, each with a finalize_package
C2_TwoPackagesTwice ==
    /\ pc = "done"
    /\ run = 2
    /\ config.service_generator
    /\ Cardinality(DOMAIN packages) >= 2
    /\ IsSome(result)
    /\ result = first_result

\* the tokens a step appends to the buffer
Appended == SubSeq(code_gen'.buf, Len(code_gen.buf) + 1, Len(code_gen'.buf))
FieldPieces == SelectSeq(Appended, LAMBDA tok : tok.k \in {"field", "map_field"})
VariantPieces == SelectSeq(Appended, LAMBDA tok : tok.k = "oneof_variant")
FnPieces == SelectSeq(Appended, LAMBDA tok : tok.k = "fn")

\* append_message emits the struct of the message of the top frame
StructStep ==
    /\ pc = "files" /\ stack # <<>>
    /\ Top.kind = "message" /\ Top.pc = "entry"
    /\ Len(stack') = Len(stack)
    /\ stack'[Len(stack)].pc \in {"messages", "ret"}
    /\ code_gen'.buf # code_gen.buf
    /\ ~ code_gen'.panicked
\* the fields of that struct, as descriptors
StructFields ==
    [k \in DOMAIN stack'[Len(stack)].parts.fields |->
        stack'[Len(stack)].parts.fields[k].descriptor]

\* append_message emits the oneofs of the message of the top frame
OneofStep ==
    /\ pc = "files" /\ stack # <<>>
    /\ Top.kind = "message" /\ Top.pc = "enums"
    /\ Len(stack') = Len(stack)
    /\ stack'[Len(stack)].pc = "ret"
    /\ ~ code_gen'.panicked
\* the members of these oneofs, in the order of emission: [oneof, field]
RECURSIVE Members(_)
Members(oneofs) ==
    IF oneofs = <<>> THEN <<>>
    ELSE [k \in DOMAIN Head(oneofs).fields |->
            [oneof |-> Head(oneofs).descriptor, field |-> Head(oneofs).fields[k].descriptor]]
         \o Members(Tail(oneofs))

BoxCount(w) == Len(SelectSeq(w, LAMBDA x : x = "Box"))

\* C3: in the struct of a message A, a field of type A that is not repeated is
\* boxed, and a repeated field of type A is not.
C3_SelfReference ==
    [][StructStep =>
         /\ Len(FieldPieces) = Len(StructFields)
         /\ \A k \in DOMAIN StructFields :
               (/\ StructFields[k].type = "message"
                /\ StructFields[k].type_name = FqName(code_gen, Top.node.name))
               => (BoxCount(FieldPieces[k].w) = 1 <=> StructFields[k].label # "repeated")]_vars

\* the buffer holds a piece of the kind k, named n, with the wrappers w
HasPiece(k, n, w) ==
    \E i \in DOMAIN code_gen.buf :
        code_gen.buf[i].k = k /\ code_gen.buf[i].n = n /\ code_gen.buf[i].w = w

\* the struct of M is in the buffer: `a`, of type M, boxed within its Option, and
\* `b`, repeated M, a Vec without a Box
C3_BoxedAndVec ==
    /\ pc = "files" /\ stack # <<>>
    /\ Top.kind = "message" /\ Top.fq = pM
    /\ HasPiece("field", <<"a">>, <<"Option", "Box">>)
    /\ HasPiece("field", <<"b">>, <<"Vec">>)

\* the containment graph requires indirection for the field of the message fq
GraphRequires(fq, field) ==
    /\ field.type \in {"message", "group"}
    /\ IsNested(message_graph, field.type_name, fq)
\* a boxed selector matches the field; path is the message's or the oneof's
SelectorMatches(path, field) ==
    IsSome(PathMapGetFirstField(config.boxed, path, field.name))
MustBox(fq, path, field) ==
    field.label # "repeated" /\ (GraphRequires(fq, field) \/ SelectorMatches(path, field))

\* C4: a field of a struct or a member of a oneof that is not repeated has one Box
\* when the graph requires it or a boxed selector matches it, both included, and
\* none otherwise; a repeated field has none, whatever the selectors.
C4_BoxedOnce ==
    [][/\ StructStep =>
            /\ Len(FieldPieces) = Len(StructFields)
            /\ \A k \in DOMAIN StructFields :
                  BoxCount(FieldPieces[k].w) =
                     IF MustBox(stack'[Len(stack)].fq, stack'[Len(stack)].fq, StructFields[k])
                     THEN 1 ELSE 0
       /\ OneofStep =>
            /\ Len(VariantPieces) = Len(Members(Top.parts.oneof_fields))
            /\ \A k \in DOMAIN VariantPieces :
                  BoxCount(VariantPieces[k].w) =
                     IF MustBox(Top.fq,
                                Top.fq \o <<".">> \o Members(Top.parts.oneof_fields)[k].oneof,
                                Members(Top.parts.oneof_fields)[k].field)
                     THEN 1 ELSE 0]_vars

\* the struct and the oneof of M are in the buffer: `a`, which the graph requires
\* and a selector matches, with one Box; `b`, repeated and matched by a selector,
\* with none; `c` and the member `f`, matched by a selector alone, with one
C4_SelectorAndGraph ==
    /\ pc = "files" /\ stack # <<>>
    /\ Top.kind = "message" /\ Top.fq = pM /\ Top.pc = "ret"
    /\ GraphRequires(pM, Top.node.field[1]) /\ SelectorMatches(pM, Top.node.field[1])
    /\ SelectorMatches(pM, Top.node.field[2])
    /\ ~ GraphRequires(pM, Top.node.field[3]) /\ SelectorMatches(pM, Top.node.field[3])
    /\ HasPiece("field", <<"a">>, <<"Option", "Box">>)
    /\ HasPiece("field", <<"b">>, <<"Vec">>)
    /\ HasPiece("field", <<"c">>, <<"Option", "Box">>)
    /\ HasPiece("oneof_variant", <<"F">>, <<"Box">>)

\* an extern path is well-formed: a leading '.', and no empty segment after it
WellFormed(p) ==
    /\ p # <<>>
    /\ p[1] = "."
    /\ \A k \in DOMAIN p : p[k] = "." => (k < Len(p) /\ p[k + 1] # ".")
\* the configured extern paths are well-formed and distinct
WellConfigured ==
    /\ \A k \in DOMAIN config.extern_paths : WellFormed(config.extern_paths[k][1])
    /\ \A j, k \in DOMAIN config.extern_paths :
          config.extern_paths[j][1] = config.extern_paths[k][1] => j = k

\* C8: with an extern path that has no leading '.', has an empty segment or comes
\* twice, Config::generate returns an error and has walked no file, called the
\* service generator for nothing and produced no text; with well-formed and
\* distinct extern paths the registry is built, with these paths.
C8_ConfigErrorFirst ==
    run >= 1 =>
        IF WellConfigured
        THEN /\ pc # "error"
             /\ DOMAIN extern_paths =
                   {config.extern_paths[k][1] : k \in DOMAIN config.extern_paths}
        ELSE /\ pc = "error"
             /\ IsSome(result) /\ ~ Unwrap(result).ok
             /\ modules = <<>>
             /\ stack = <<>>
             /\ code_gen = NoCodeGen
             /\ service_state = <<>>
             /\ next_req = 1

\* Config::generate has returned an error on requests with services to generate
C8_ErrorWithWork ==
    /\ pc = "error"
    /\ config.service_generator
    /\ ~ WellConfigured
    /\ \E k \in DOMAIN requests : requests[k].fd.service # <<>>
    /\ modules = <<>>

\* the name resolves in the registry, itself or through a registered prefix
ExternName(name) ==
    \/ name \in DOMAIN extern_paths
    \/ \E p \in DOMAIN extern_paths : SegmentPrefix(p, name)

\* append_message or append_enum is entered for the type of the top frame
TypeEntered ==
    /\ pc = "files" /\ stack # <<>>
    /\ Top.kind \in {"message", "enum"}
    /\ Top.pc = "entry"

\* C9: append_message and append_enum, entered for a type whose name resolves in
\* the registry, return at once: the buffer is as it was and no call for a nested
\* type is made.
C9_ExternAppendsNothing ==
    [][(TypeEntered /\ ExternName(FqName(code_gen, Top.node.name))) =>
          /\ code_gen'.buf = code_gen.buf
          /\ Len(stack') = Len(stack)
          /\ stack'[Len(stack)].pc = "ret"]_vars

\* append_message returns for an extern message that has nested types
C9_ExternWithNested ==
    /\ Returning
    /\ Top.kind = "message"
    /\ ExternName(FqName(code_gen, Top.node.name))
    /\ Top.node.nested_type # <<>>
    /\ Top.fq = <<>>

\* the target the registry gives for a name that resolves in it
Target(name) == Unwrap(ResolveExternIdent(extern_paths, name))
\* the type of the map value of the field, when the field is a map
IsMapField(field) == field.type_name \in DOMAIN stack'[Len(stack)].parts.map_types
MapValue(field) == stack'[Len(stack)].parts.map_types[field.type_name][2]
IsMessageRef(field) == field.type \in {"message", "group"} /\ ExternName(field.type_name)
IsEnumRef(field) == field.type = "enum" /\ ExternName(field.type_name)

\* the services of the file of the top frame are handed to the generator
ServiceStep ==
    /\ pc = "files" /\ stack # <<>>
    /\ Top.kind = "file" /\ Top.pc = "services"
    /\ config.service_generator
    /\ ~ code_gen'.panicked
\* the methods of these services, in the order of emission
RECURSIVE Methods(_)
Methods(services) ==
    IF services = <<>> THEN <<>> ELSE Head(services).method \o Methods(Tail(services))

\* the references to extern messages, in each place a reference is emitted
MessageRefsByTarget ==
    /\ StructStep =>
          \A k \in DOMAIN StructFields :
             /\ (~ IsMapField(StructFields[k]) /\ IsMessageRef(StructFields[k]))
                   => FieldPieces[k].t = Target(StructFields[k].type_name)
             /\ (IsMapField(StructFields[k]) /\ IsMessageRef(MapValue(StructFields[k])))
                   => EndsWith(FieldPieces[k].t,
                               <<", ">> \o Target(MapValue(StructFields[k]).type_name))
    /\ OneofStep =>
          \A k \in DOMAIN VariantPieces :
             IsMessageRef(Members(Top.parts.oneof_fields)[k].field)
                => VariantPieces[k].t = Target(Members(Top.parts.oneof_fields)[k].field.type_name)
    /\ ServiceStep =>
          /\ Len(FnPieces) = Len(Methods(Top.node.service))
          /\ \A k \in DOMAIN FnPieces :
                /\ ExternName(Methods(Top.node.service)[k][2])
                      => StartsWith(FnPieces[k].t,
                                    Target(Methods(Top.node.service)[k][2]) \o <<" -> ">>)
                /\ ExternName(Methods(Top.node.service)[k][3])
                      => EndsWith(FnPieces[k].t,
                                  <<" -> ">> \o Target(Methods(Top.node.service)[k][3]))

\* the references to extern enums from the fields of a struct and the members of
\* a oneof, emitted as `ty`
EnumRefsBy(ty(_)) ==
    /\ StructStep =>
          \A k \in DOMAIN StructFields :
             (~ IsMapField(StructFields[k]) /\ IsEnumRef(StructFields[k]))
                => FieldPieces[k].t = ty(StructFields[k].type_name)
    /\ OneofStep =>
          \A k \in DOMAIN VariantPieces :
             IsEnumRef(Members(Top.parts.oneof_fields)[k].field)
                => VariantPieces[k].t = ty(Members(Top.parts.oneof_fields)[k].field.type_name)
Int32(name) == <<"i32">>

\* C10 as stated: a reference to a message or to an enum whose name resolves in the
\* registry is emitted as the target the registry gives.
C10_EveryReferenceByTarget == [][MessageRefsByTarget /\ EnumRefsBy(Target)]_vars

\* C10, amended: a reference to a message whose name resolves in the registry, from
\* a field of a struct, a member of a oneof, a map value or a method of a service,
\* is emitted as the target the registry gives, whatever the local path; a field
\* or a member of an enum type whose name resolves in the registry is emitted as
\* i32.
C10_MessageReferenceByTarget == [][MessageRefsByTarget /\ EnumRefsBy(Int32)]_vars

\* the struct of M is in the buffer, with `c` of the extern message type emitted as
\* its target and `d` of the extern enum type emitted as i32
C10_ExternFieldTypes ==
    /\ pc = "files" /\ stack # <<>>
    /\ Top.kind = "message" /\ Top.fq = pM
    /\ ExternName(xExt) /\ ExternName(xEn)
    /\ \E i, j \in DOMAIN code_gen.buf :
          /\ code_gen.buf[i].k = "field" /\ code_gen.buf[i].n = <<"c">>
          /\ code_gen.buf[i].t = Target(xExt)
          /\ code_gen.buf[j].k = "field" /\ code_gen.buf[j].n = <<"d">>
          /\ code_gen.buf[j].t = <<"i32">>
          /\ Target(xEn) # <<"i32">>


\* ------------------------------------------ properties: names, enums, comments
\* the namespace segments of a fully-qualified name, and its type segment
NamespaceOf(name) == Front(Split(Tail(name), "."))
TypeOf(name) == Last(Split(Tail(name), "."))
\* a message name that is not extern, referred to from its own enclosing scope
OwnScope(name) == ~ ExternName(name) /\ NamespaceOf(name) = LocalPath(code_gen)
IsLocalRef(field) == field.type \in {"message", "group"} /\ OwnScope(field.type_name)
\* the reference is the declared-type segment alone
TypeAlone(t, name) ==
    /\ t = ToUpperCamel(TypeOf(name))
    /\ "::" \notin SeqRange(t)
    /\ "super" \notin SeqRange(t)

\* C11: a reference to a name that is not extern, emitted while the package and the
\* open nested types are the namespace of the name, is the declared-type segment
\* of the name, with no `super` and no namespace segment.
C11_OwnScopeTypeAlone ==
    [][/\ StructStep =>
            \A k \in DOMAIN StructFields :
               (~ IsMapField(StructFields[k]) /\ IsLocalRef(StructFields[k]))
                  => TypeAlone(FieldPieces[k].t, StructFields[k].type_name)
       /\ OneofStep =>
            \A k \in DOMAIN VariantPieces :
               IsLocalRef(Members(Top.parts.oneof_fields)[k].field)
                  => TypeAlone(VariantPieces[k].t,
                               Members(Top.parts.oneof_fields)[k].field.type_name)]_vars

\* the oneof of M is in the buffer, emitted inside the module of M: its member `e`
\* of the type .p.M.N, nested in M, is emitted as `N`
C11_NestedFromItsModule ==
    /\ Returning
    /\ Top.kind = "message" /\ Top.fq = pM
    /\ ~ ExternName(pMN)
    /\ \E i \in DOMAIN code_gen.buf :
          /\ code_gen.buf[i].k = "oneof_variant"
          /\ code_gen.buf[i].n = <<"E">>
          /\ code_gen.buf[i].t = <<"N">>


\* append_enum runs for the enum of the top frame, which is not extern
EnumStep ==
    /\ TypeEntered
    /\ Top.kind = "enum"
    /\ ~ ExternName(FqName(code_gen, Top.node.name))
\* the values of that enum that are the first declared with their number, as the
\* increasing sequence of their indices
Kept == {k \in DOMAIN Top.node.value :
            \A j \in 1..(k - 1) : Top.node.value[j][2] # Top.node.value[k][2]}
KeptIdx == IndicesIn(Top.node.value, Kept)
\* the variant name generated for the value at k
GenName(k) ==
    IF config.strip_enum_prefix
    THEN StripEnumPrefix(ToUpperCamel(Top.node.name), ToUpperCamel(Top.node.value[k][1]))
    ELSE ToUpperCamel(Top.node.value[k][1])
\* the variants and the comments of the variants that the step emits
VariantToks == SelectSeq(Appended, LAMBDA tok : tok.k = "variant")
VariantDocs == SelectSeq(Appended, LAMBDA tok : tok.k = "doc" /\ tok.i = code_gen.depth + 1)
\* the comment recorded for the value at k, under the path of the enum
CommentAt(k) ==
    LET locs == Unwrap(code_gen.source_info)
    IN locs[CHOOSE l \in DOMAIN locs : locs[l].path = code_gen.path \o <<2, k - 1>>].comment
KeptComments ==
    SelectSeq([k \in DOMAIN KeptIdx |-> CommentAt(KeptIdx[k])], LAMBDA c : c # <<>>)

\* C12: the variants of an enum are the values that are the first declared with
\* their number, in declaration order, each with its number and, for its comment,
\* its own declaration index; a later value with a number seen before is dropped.
C12_FirstOfEachNumber ==
    [][(EnumStep /\ ~ code_gen'.panicked) =>
          /\ BuildEnumValueMappings(ToUpperCamel(Top.node.name), config.strip_enum_prefix,
                                    Top.node.value).mappings
               = [k \in DOMAIN KeptIdx |->
                    [path_idx |-> KeptIdx[k] - 1,
                     proto_name |-> Top.node.value[KeptIdx[k]][1],
                     proto_number |-> Top.node.value[KeptIdx[k]][2],
                     generated_variant_name |-> GenName(KeptIdx[k])]]
          /\ Len(VariantToks) = Len(KeptIdx)
          /\ \A k \in DOMAIN KeptIdx :
                /\ VariantToks[k].i = Top.node.value[KeptIdx[k]][2]
                /\ VariantToks[k].n = GenName(KeptIdx[k])
          /\ (code_gen.source_info # None /\ config.disable_comments = <<>>)
                => [k \in DOMAIN VariantDocs |-> VariantDocs[k].t] = KeptComments]_vars

\* the enum Al is in the buffer: X = 0 with its comment and Y = 1, the third value
\* declared, with the comment of the third value; the alias al_x has no variant
C12_AliasDropped ==
    /\ Returning
    /\ Top.kind = "enum" /\ Top.node = EnumAl
    /\ config.strip_enum_prefix
    /\ \E i \in DOMAIN code_gen.buf :
          /\ i + 5 <= Len(code_gen.buf)
          /\ code_gen.buf[i].k = "doc" /\ code_gen.buf[i].t = <<"about AL_X">>
          /\ code_gen.buf[i + 2].k = "variant" /\ code_gen.buf[i + 2].n = <<"X">>
          /\ code_gen.buf[i + 2].i = 0
          /\ code_gen.buf[i + 3].k = "doc" /\ code_gen.buf[i + 3].t = <<"about AL_Y">>
          /\ code_gen.buf[i + 5].k = "variant" /\ code_gen.buf[i + 5].n = <<"Y">>
          /\ code_gen.buf[i + 5].i = 1

\* two kept values with distinct names are given one variant name
Collide ==
    \E j, k \in Kept :
        /\ j < k
        /\ Top.node.value[j][1] # Top.node.value[k][1]
        /\ GenName(j) = GenName(k)

\* C13: append_enum panics for overlapping variant names exactly when two kept
\* values with distinct names are given one variant name; the values dropped as
\* aliases are not looked at, and the variants of an enum that is emitted have
\* pairwise distinct names.
C13_OverlapIffCollision ==
    [][EnumStep =>
          /\ Collide => (code_gen'.panicked /\ code_gen'.fatal.what = "overlap"
                          /\ pc' = "panic")
          /\ (code_gen'.panicked /\ code_gen'.fatal.what = "overlap") => Collide
          /\ ~ code_gen'.panicked =>
                \A j, k \in DOMAIN VariantToks :
                    VariantToks[j].n = VariantToks[k].n => j = k]_vars

\* the walk has ended in the panic for the enum K, whose K_A and A are both `A`
C13_OverlapPanic ==
    /\ pc = "panic"
    /\ stack # <<>> /\ Top.kind = "enum" /\ Top.node = EnumK
    /\ code_gen.panicked
    /\ code_gen.fatal = Fatal("overlap", <<"A">>, <<"K", "_", "A">>, <<"A">>)

\* s occurs in t
IsInfix(s, t) == \E i \in 0..(Len(t) - Len(s)) : SubSeq(t, i + 1, i + Len(s)) = s

\* C14 as stated: the message of the panic for overlapping variant names gives the
\* fully-qualified name of the enum, the generated name and the two names of the
\* schema.
C14_FatalNamesEnum ==
    (pc = "panic" /\ stack # <<>> /\ code_gen.fatal.what = "overlap") =>
        /\ code_gen.fatal.name # <<>>
        /\ code_gen.fatal.old # <<>>
        /\ code_gen.fatal.new # <<>>
        /\ \E part \in {code_gen.fatal.name, code_gen.fatal.old, code_gen.fatal.new} :
              IsInfix(FqName(code_gen, Top.node.name), part)


\* C15 as stated: a path of the walk that has no location yields no comment and the
\* walk goes on, in a file without source info and in a file whose source info
\* lacks the path: no walk ends in a panic of the lookup.
C15_MissingLocationNoError ==
    code_gen.panicked => code_gen.fatal.what # "location"


\* ------------------------------------------------ properties: the services
\* CodeGenerator::generate reaches the services of the file of the top frame
FileServicesStep ==
    /\ pc = "files" /\ stack # <<>>
    /\ Top.kind = "file" /\ Top.pc = "services"
\* the callbacks of the generator, as it records them
Callback(op, arg) == [op |-> op, arg |-> arg]
\* the generate callbacks for the services of a file, in declaration order
GenerateCalls(file) ==
    [k \in DOMAIN file.service |-> Callback("generate", ToUpperCamel(file.service[k].name))]

\* C16: with a service generator, the services of a file are handed to generate
\* once each, in declaration order, and finalize is called once after them, also
\* for a file without services, all before the next file begins; no other step of
\* the walk of a file calls the generator. Without a service generator no callback
\* is made and the services add nothing to the buffer.
C16_PerFileCallbacks ==
    [][/\ (FileServicesStep /\ config.service_generator /\ ~ code_gen'.panicked) =>
             service_state' = service_state \o GenerateCalls(Top.node)
                                \o <<Callback("finalize", <<>>)>>
       /\ (FileServicesStep /\ ~ config.service_generator) =>
             service_state' = service_state /\ code_gen'.buf = code_gen.buf
       /\ (pc = "files" /\ stack # <<>> /\ ~ FileServicesStep) =>
             service_state' = service_state
       /\ ~ config.service_generator => service_state' = <<>>]_vars

\* generate is done with p1.proto, whose services are S and R, after a file
\* without services: finalize, generate S, generate R, finalize
C16_TwoServicesAfterNone ==
    /\ Returning
    /\ Top.kind = "file" /\ Top.node = FileP1
    /\ config.service_generator
    /\ Len(requests) = 2 /\ requests[1].fd.service = <<>> /\ next_req = 2
    /\ run = 1
    /\ service_state = <<Callback("finalize", <<>>), Callback("generate", <<"S">>),
                         Callback("generate", <<"R">>), Callback("finalize", <<>>)>>

\* Config::generate is past its loop over the requests
AllFilesDone == pc = "files" /\ stack = <<>> /\ next_req > Len(requests)
\* the callbacks that a step adds
NewCalls == SubSeq(service_state', Len(service_state) + 1, Len(service_state'))
\* the packages of the request list that have a file with a service
ServicePackages ==
    {requests[k].fd.package : k \in {j \in DOMAIN requests : requests[j].fd.service # <<>>}}

\* C17 as stated: with a service generator, finalize_package is called once for
\* each distinct package that has a file with a service, for no other package, and
\* only when every file of the request list has been processed.
C17_OncePerPackage ==
    [][/\ (AllFilesDone /\ config.service_generator /\ pc' = "done") =>
             /\ Len(service_state') >= Len(service_state)
             /\ \A k \in DOMAIN NewCalls : NewCalls[k].op = "finalize_package"
             /\ \A package \in ServicePackages :
                   Cardinality({k \in DOMAIN NewCalls : NewCalls[k].arg = package}) = 1
             /\ \A k \in DOMAIN NewCalls : NewCalls[k].arg \in ServicePackages
       /\ ~ AllFilesDone =>
             /\ Len(service_state') >= Len(service_state)
             /\ \A k \in DOMAIN NewCalls : NewCalls[k].op # "finalize_package"]_vars

\* -------------------------------------------- properties: the configuration
\* the fields of the struct that are maps, and the pieces emitted for them
IsMapPiece(k) == IsMapField(StructFields[k])
\* a btree_map selector matches the field of the message fq
BtreeMapMatches(fq, field) ==
    IsSome(PathMapGetFirstField(config.map_type, fq, field.name))
BTreeMapPath == <<"alloc::collections::BTreeMap">>

\* C19 as stated: a map field that a btree_map selector matches is emitted as a
\* BTreeMap, and a map field that none matches is emitted with another container,
\* the default HashMap.
C19_BTreeMapOnlyWhenSelected ==
    [][StructStep =>
          \A k \in DOMAIN StructFields :
             IsMapPiece(k) =>
                /\ FieldPieces[k].k = "map_field"
                /\ IF BtreeMapMatches(stack'[Len(stack)].fq, StructFields[k])
                   THEN FieldPieces[k].w = BTreeMapPath
                   ELSE FieldPieces[k].w # BTreeMapPath]_vars

\* a file for which generate has nothing to emit after what it writes at its start
DeclaresNothing(fd) ==
    /\ fd.message_type = <<>> /\ fd.enum_type = <<>>
    /\ fd.service = <<>> /\ ~ config.service_generator
\* the files of the request list that are placed in the module
FilesOf(module) == {requests[k].fd : k \in {j \in DOMAIN requests : requests[j].module = module}}

sG == <<"g">>
sP == <<".", "p">>
SelectorInputs == {sG, sP}
\* the `paths` of one call of btree_map, bytes, disable_comments, skip_debug
PathsInputs == {<<sG>>, <<sP>>, <<sG, sP>>, <<sP, sG>>}
AttributeInputs == {"#[a]", "#[b]"}
DomainInputs == {"type.googleapis.com"}

\* the categories of selectors of a Config
Categories ==
    {"map_type", "bytes_type", "disable_comments", "skip_debug", "boxed",
     "type_attributes", "message_attributes", "enum_attributes", "field_attributes",
     "type_name_domains"}
\* the selectors registered in a Config, over all categories
RECURSIVE CountIn(_, _)
CountIn(c, cats) ==
    IF cats = {} THEN 0
    ELSE LET cat == CHOOSE x \in cats : TRUE
         IN Len(c[cat]) + CountIn(c, cats \ {cat})
Registered(c) == CountIn(c, Categories)

InitConfig ==
    /\ config = ConfigDefault
    /\ pc = "config"
    /\ run = 0
    /\ requests = <<>>
    /\ next_req = 1
    /\ message_graph = NoGraph
    /\ extern_paths = <<>>
    /\ modules = <<>>
    /\ packages = <<>>
    /\ code_gen = NoCodeGen
    /\ stack = <<>>
    /\ service_state = <<>>
    /\ result = None
    /\ first_result = None
    /\ ident_arg = <<>>
    /\ resolved = None
    /\ includes = NoIncludes

\* Config::btree_map(paths)
BtreeMap ==
    /\ pc = "config"
    /\ Registered(config) < MaxSelectors
    /\ \E paths \in PathsInputs : config' = ConfigBtreeMap(config, paths)
    /\ UNCHANGED <<pc, run, requests, next_req, message_graph, extern_paths, modules,
                   packages, code_gen, stack, service_state, result, first_result,
                   ident_arg, resolved,
                   includes>>

\* Config::bytes(paths)
Bytes ==
    /\ pc = "config"
    /\ Registered(config) < MaxSelectors
    /\ \E paths \in PathsInputs : config' = ConfigBytes(config, paths)
    /\ UNCHANGED <<pc, run, requests, next_req, message_graph, extern_paths, modules,
                   packages, code_gen, stack, service_state, result, first_result,
                   ident_arg, resolved,
                   includes>>

\* Config::disable_comments(paths)
DisableComments ==
    /\ pc = "config"
    /\ Registered(config) < MaxSelectors
    /\ \E paths \in PathsInputs : config' = ConfigDisableComments(config, paths)
    /\ UNCHANGED <<pc, run, requests, next_req, message_graph, extern_paths, modules,
                   packages, code_gen, stack, service_state, result, first_result,
                   ident_arg, resolved,
                   includes>>

\* Config::skip_debug(paths)
SkipDebug ==
    /\ pc = "config"
    /\ Registered(config) < MaxSelectors
    /\ \E paths \in PathsInputs : config' = ConfigSkipDebug(config, paths)
    /\ UNCHANGED <<pc, run, requests, next_req, message_graph, extern_paths, modules,
                   packages, code_gen, stack, service_state, result, first_result,
                   ident_arg, resolved,
                   includes>>

\* Config::boxed(path)
Boxed ==
    /\ pc = "config"
    /\ Registered(config) < MaxSelectors
    /\ \E path \in SelectorInputs : config' = ConfigBoxed(config, path)
    /\ UNCHANGED <<pc, run, requests, next_req, message_graph, extern_paths, modules,
                   packages, code_gen, stack, service_state, result, first_result,
                   ident_arg, resolved,
                   includes>>

\* Config::field_attribute(path, attribute)
FieldAttribute ==
    /\ pc = "config"
    /\ Registered(config) < MaxSelectors
    /\ \E path \in SelectorInputs, attribute \in AttributeInputs :
          config' = ConfigFieldAttribute(config, path, attribute)
    /\ UNCHANGED <<pc, run, requests, next_req, message_graph, extern_paths, modules,
                   packages, code_gen, stack, service_state, result, first_result,
                   ident_arg, resolved,
                   includes>>

\* Config::type_attribute(path, attribute)
TypeAttribute ==
    /\ pc = "config"
    /\ Registered(config) < MaxSelectors
    /\ \E path \in SelectorInputs, attribute \in AttributeInputs :
          config' = ConfigTypeAttribute(config, path, attribute)
    /\ UNCHANGED <<pc, run, requests, next_req, message_graph, extern_paths, modules,
                   packages, code_gen, stack, service_state, result, first_result,
                   ident_arg, resolved,
                   includes>>

\* Config::message_attribute(path, attribute)
MessageAttribute ==
    /\ pc = "config"
    /\ Registered(config) < MaxSelectors
    /\ \E path \in SelectorInputs, attribute \in AttributeInputs :
          config' = ConfigMessageAttribute(config, path, attribute)
    /\ UNCHANGED <<pc, run, requests, next_req, message_graph, extern_paths, modules,
                   packages, code_gen, stack, service_state, result, first_result,
                   ident_arg, resolved,
                   includes>>

\* Config::enum_attribute(path, attribute)
EnumAttribute ==
    /\ pc = "config"
    /\ Registered(config) < MaxSelectors
    /\ \E path \in SelectorInputs, attribute \in AttributeInputs :
          config' = ConfigEnumAttribute(config, path, attribute)
    /\ UNCHANGED <<pc, run, requests, next_req, message_graph, extern_paths, modules,
                   packages, code_gen, stack, service_state, result, first_result,
                   ident_arg, resolved,
                   includes>>

\* Config::type_name_domain(paths, domain)
TypeNameDomain ==
    /\ pc = "config"
    /\ Registered(config) < MaxSelectors
    /\ \E paths \in {<<sG>>, <<sP>>}, domain \in DomainInputs :
          config' = ConfigTypeNameDomain(config, paths, domain)
    /\ UNCHANGED <<pc, run, requests, next_req, message_graph, extern_paths, modules,
                   packages, code_gen, stack, service_state, result, first_result,
                   ident_arg, resolved,
                   includes>>

NextConfig ==
    \/ BtreeMap
    \/ Bytes
    \/ DisableComments
    \/ SkipDebug
    \/ Boxed
    \/ FieldAttribute
    \/ TypeAttribute
    \/ MessageAttribute
    \/ EnumAttribute
    \/ TypeNameDomain

SpecConfig == InitConfig /\ [][NextConfig]_vars

\* the categories whose builders insert into what is there, and those whose
\* builders clear it first
Inserting ==
    {"boxed", "type_attributes", "message_attributes", "enum_attributes",
     "field_attributes", "type_name_domains"}
Clearing == {"map_type", "bytes_type", "disable_comments", "skip_debug"}
\* the payload that the builder of a clearing category inserts
PayloadOf(cat) ==
    IF cat = "map_type" THEN "BTreeMap" ELSE IF cat = "bytes_type" THEN "Bytes" ELSE TRUE
\* the names that the selectors are matched against
ProbeInputs == {pM, pM \o <<".", "g">>, <<".", "q", ".", "M", ".", "g">>}
IsPrefix(a, b) == Len(a) <= Len(b) /\ SubSeq(b, 1, Len(a)) = a

\* C20, amended: the selectors of boxed, of the type, message, enum and field
\* attributes and of type_name_domain are cumulative: after a later call the earlier
\* selectors are still there, in their order, and what they yield for a name is still
\* yielded, first. btree_map, bytes, disable_comments and skip_debug are not: after
\* a call the category holds the paths of that call and nothing else.
C20_CumulativeUnlessCleared ==
    [][/\ \A cat \in Inserting :
             /\ IsPrefix(config[cat], config'[cat])
             /\ \A probe \in ProbeInputs :
                   IsPrefix(PathMapGet(config[cat], probe), PathMapGet(config'[cat], probe))
       /\ \A cat \in Clearing :
             config'[cat] # config[cat] =>
                \E paths \in PathsInputs :
                   config'[cat] = PathMapInsertAll(<<>>, paths, PayloadOf(cat))]_vars

\* C20 as stated: in every category, the selectors of the earlier calls are still
\* there after a later call.
C20_EveryCategoryCumulative ==
    [][\A cat \in Categories : IsPrefix(config[cat], config'[cat])]_vars

\* two calls of field_attribute, both yielding their attribute for the field g of
\* .p.M, in the order of the calls, and a btree_map that holds one call's path
C20_TwoCallsBothYield ==
    /\ pc = "config"
    /\ Len(config.field_attributes) = 2
    /\ config.field_attributes[1][1] # config.field_attributes[2][1]
    /\ PathMapGet(config.field_attributes, pM \o <<".", "g">>) = <<"#[a]", "#[b]">>
    /\ config.map_type = <<<<sP, "BTreeMap">>>>

\* ------------------------------------------- properties: the annotations
\* the pieces that are declarations, and where a step appends them
DeclKinds ==
    {"struct", "field", "map_field", "oneof_field", "oneof_enum", "oneof_variant", "enum",
     "variant"}
DeclPos == IndicesIn(Appended, {k \in DOMAIN Appended : Appended[k].k \in DeclKinds})
\* the attributes that the step appends between the declaration before the i-th and
\* the i-th
AttrsBefore(i) ==
    LET from == IF i = 1 THEN 1 ELSE DeclPos[i - 1] + 1
        pieces == SubSeq(Appended, from, DeclPos[i] - 1)
        attrs == SelectSeq(pieces, LAMBDA tok : tok.k = "attr")
    IN [k \in DOMAIN attrs |-> attrs[k].t]
EmittedAttrs == [i \in DOMAIN DeclPos |-> AttrsBefore(i)]
\* the payloads of the selectors of a category that match a name, every match
\* counted, in the order in which the selectors were registered
Payloads(matchers, name) ==
    LET hits == IndicesIn(matchers, {k \in DOMAIN matchers : IsMatch(matchers[k][1], name)})
    IN [k \in DOMAIN hits |-> matchers[hits[k]][2]]
\* what is due before a message or an enum, and before a field of `owner`
TypeDue(category, name) == Payloads(config.type_attributes, name) \o Payloads(category, name)
FieldDue(owner, name) == Payloads(config.field_attributes, owner \o <<".">> \o name)
\* what is due in a oneof: before its enum, then before each of its variants
RECURSIVE OneofsDue(_, _)
OneofsDue(fq, oneofs) ==
    IF oneofs = <<>> THEN <<>>
    ELSE LET oneof_name == fq \o <<".">> \o Head(oneofs).descriptor
         IN <<TypeDue(config.enum_attributes, oneof_name)>>
            \o [k \in DOMAIN Head(oneofs).fields |->
                  FieldDue(oneof_name, Head(oneofs).fields[k].descriptor.name)]
            \o OneofsDue(fq, Tail(oneofs))

\* C21: before a message, an enum, a oneof, a field, a variant, the step emits the
\* payload of every selector that matches it, in the order of registration, a payload
\* that several matching selectors carry as often as they match: the type attributes
\* and then the message or enum attributes before a type, the field attributes before
\* a field, a oneof field and a variant.
C21_EveryMatchInOrder ==
    [][/\ StructStep =>
            EmittedAttrs =
               <<TypeDue(config.message_attributes, stack'[Len(stack)].fq)>>
               \o [k \in DOMAIN StructFields |->
                      FieldDue(stack'[Len(stack)].fq, StructFields[k].name)]
               \o [k \in DOMAIN stack'[Len(stack)].parts.oneof_fields |->
                      FieldDue(stack'[Len(stack)].fq,
                               stack'[Len(stack)].parts.oneof_fields[k].descriptor)]
       /\ (OneofStep /\ ~ code_gen'.panicked) =>
            EmittedAttrs = OneofsDue(Top.fq, Top.parts.oneof_fields)
       /\ (EnumStep /\ ~ code_gen'.panicked) =>
            EmittedAttrs =
               <<TypeDue(config.enum_attributes, FqName(code_gen, Top.node.name))>>
               \o [k \in DOMAIN KeptIdx |->
                      FieldDue(FqName(code_gen, Top.node.name),
                               Top.node.value[KeptIdx[k]][1])]]_vars

\* the struct of .p.M is in the buffer with `#[t]` twice and the two message
\* attributes before it, and `#[f]`, `#[g]`, `#[f]` before its field a
C21_DuplicatesKept ==
    /\ pc = "files" /\ stack # <<>>
    /\ Top.kind = "message" /\ Top.fq = pM /\ Top.pc = "messages"
    /\ Payloads(config.type_attributes, pM) = <<"#[t]", "#[t]">>
    /\ \E i \in DOMAIN code_gen.buf :
          /\ i + 14 <= Len(code_gen.buf)
          /\ [k \in 1..4 |-> code_gen.buf[i + 2 * k - 1].t] = <<"#[t]", "#[t]", "#[m1]", "#[m2]">>
          /\ code_gen.buf[i + 11].k = "struct"
    /\ \E i \in DOMAIN code_gen.buf :
          /\ i + 7 <= Len(code_gen.buf)
          /\ [k \in 1..3 |-> code_gen.buf[i + 2 * k - 1].t] = <<"#[f]", "#[g]", "#[f]">>
          /\ code_gen.buf[i + 7].k = "field" /\ code_gen.buf[i + 7].n = <<"a">>

\* ---------------------------------------------- properties: the selectors
\* the selectors of the configuration, of every category
Selectors ==
    UNION {{config[cat][k][1] : k \in DOMAIN config[cat]} : cat \in Categories}
\* the names that lookups are made with for the type entered: its own, that of each
\* field, oneof and member of a oneof of a message, that of each value of an enum
EnteredName == FqName(code_gen, Top.node.name)
EnteredTargets ==
    {EnteredName}
    \cup (IF Top.kind = "enum"
          THEN {EnteredName \o <<".">> \o Top.node.value[k][1] : k \in DOMAIN Top.node.value}
          ELSE {EnteredName \o <<".">> \o Top.node.field[k].name : k \in DOMAIN Top.node.field}
               \cup {EnteredName \o <<".">> \o Top.node.oneof_decl[k] :
                       k \in DOMAIN Top.node.oneof_decl}
               \cup {EnteredName \o <<".">> \o Top.node.oneof_decl[Top.node.field[k].oneof_index + 1]
                       \o <<".">> \o Top.node.field[k].name :
                       k \in {j \in DOMAIN Top.node.field : Top.node.field[j].oneof_index >= 0}})
\* a name as its segments; the one before the leading separator is empty
Segments(name) == Split(name, ".")
\* the rules: the segments of an absolute selector begin those of the name, the
\* segments of a relative selector end them
ByTheRules(s, p) ==
    LET ss == Segments(s)
        ps == Segments(p)
    IN /\ Len(ss) <= Len(ps)
       /\ IF s[1] = "."
          THEN SubSeq(ps, 1, Len(ss)) = ss
          ELSE SubSeq(ps, Len(ps) - Len(ss) + 1, Len(ps)) = ss

GlobalPayloads(cat) ==
    {config[cat][k][2] : k \in {j \in DOMAIN config[cat] : config[cat][j][1] = <<".">>}}
InSeq(x, seq) == \E k \in DOMAIN seq : seq[k] = x
\* the declarations of a step, from the i-th on, have every payload of the set
EveryDeclFrom(i, payloads) ==
    \A k \in DOMAIN DeclPos : k >= i => \A x \in payloads : InSeq(x, AttrsBefore(k))
\* the positions, among the declarations of a step on oneofs, of the enums
OneofEnumDecls == {k \in DOMAIN DeclPos : Appended[DeclPos[k]].k = "oneof_enum"}
NoDocAppended == \A k \in DOMAIN Appended : Appended[k].k # "doc"

CharRank(c) == CHOOSE i \in DOMAIN Lowers : Lowers[i] = c
RECURSIVE StrLess(_, _)
StrLess(a, b) ==
    IF b = <<>> THEN FALSE
    ELSE IF a = <<>> THEN TRUE
    ELSE IF Head(a) = Head(b) THEN StrLess(Tail(a), Tail(b))
    ELSE CharRank(Head(a)) < CharRank(Head(b))
\* Ord for Module
RECURSIVE ModuleLess(_, _)
ModuleLess(a, b) ==
    IF b = <<>> THEN FALSE
    ELSE IF a = <<>> THEN TRUE
    ELSE IF Head(a) = Head(b) THEN ModuleLess(Tail(a), Tail(b))
    ELSE StrLess(Head(a), Head(b))
\* Module::starts_with
ModuleStartsWith(module, needle) == StartsWith(module, needle)

\* a write_includes that takes its modules in the order given
KeepOrder(mods) == mods

\* modules.sort()
RECURSIVE SortModules(_)
SortModules(mods) ==
    IF mods = <<>> THEN <<>>
    ELSE LET rest == SortModules(Tail(mods))
             before == SelectSeq(rest, LAMBDA m : ModuleLess(m, Head(mods)))
             after == SelectSeq(rest, LAMBDA m : ~ ModuleLess(m, Head(mods)))
         IN before \o <<Head(mods)>> \o after

\* write_line(outfile, depth, line): a line is its depth, its kind and the part or
\* the module's file that it names
Line(depth, kind, name) == [depth |-> depth, kind |-> kind, name |-> name]

\* `while !module.starts_with(&stack) { stack.pop(); write_line(.., "}") }`;
\* w is [stack, outfile]
RECURSIVE PopToPrefix(_, _)
PopToPrefix(w, module) ==
    IF ModuleStartsWith(module, w.stack) THEN w
    ELSE PopToPrefix([stack |-> Front(w.stack),
                      outfile |-> Append(w.outfile, Line(Len(w.stack) - 1, "close", <<>>))],
                     module)
\* `while stack.len() < module.len() { write_line(.., "pub mod .. {"); stack.push(..) }`
RECURSIVE PushToModule(_, _)
PushToModule(w, module) ==
    IF Len(w.stack) >= Len(module) THEN w
    ELSE PushToModule([stack |-> Append(w.stack, module[Len(w.stack) + 1]),
                       outfile |-> Append(w.outfile,
                                          Line(Len(w.stack), "open", module[Len(w.stack) + 1]))],
                      module)
\* the include!() line of a module, with its file name out of file_names
IncludeLine(w, module, basepath) ==
    [w EXCEPT !.outfile = Append(@, Line(Len(w.stack),
                                         IF basepath THEN "include" ELSE "include_env",
                                         module))]
\* `for depth in (0..stack.len()).rev() { write_line(outfile, depth, "}") }`
CloseAll(w) ==
    w.outfile \o [k \in 1..Len(w.stack) |-> Line(Len(w.stack) - k, "close", <<>>)]

\* the modules write_includes is called with: the keys of a map, in any order
mA == <<<<"a">>>>
mAB == <<<<"a">>, <<"b">>>>
mABC == <<<<"a">>, <<"b">>, <<"c">>>>
mAC == <<<<"a">>, <<"c">>>>
mAb == <<<<"a", "b">>>>
mB == <<<<"b">>>>
ModuleInputs == {<<>>, mA, mAB, mABC, mAC, mAb, mB}
RECURSIVE DistinctSeqs(_, _)
DistinctSeqs(S, n) ==
    IF n = 0 THEN {<<>>}
    ELSE LET shorter == DistinctSeqs(S, n - 1)
         IN shorter \cup {Append(q, x) : q \in shorter, x \in S}
ModulesInputs ==
    {q \in DistinctSeqs(ModuleInputs, MaxModules) :
        \A i, j \in DOMAIN q : q[i] = q[j] => i = j}

InitIncludes ==
    /\ config = ConfigDefault
    /\ pc = "includes"
    /\ run = 0
    /\ requests = <<>>
    /\ next_req = 1
    /\ message_graph = NoGraph
    /\ extern_paths = <<>>
    /\ modules = <<>>
    /\ packages = <<>>
    /\ code_gen = NoCodeGen
    /\ stack = <<>>
    /\ service_state = <<>>
    /\ result = None
    /\ first_result = None
    /\ ident_arg = <<>>
    /\ resolved = None
    /\ includes = NoIncludes

\* write_includes is called: the modules are sorted, the stack is empty
WriteIncludes ==
    /\ pc = "includes"
    /\ includes.at = "idle"
    /\ \E mods \in ModulesInputs, basepath \in BOOLEAN :
          includes' = [modules |-> SortModules(mods), next |-> 1, stack |-> <<>>,
                       outfile |-> <<>>, at |-> "loop", given |-> mods,
                       basepath |-> basepath]
    /\ UNCHANGED <<config, pc, run, requests, next_req, message_graph, extern_paths,
                   modules, packages, code_gen, stack, service_state, result,
                   first_result, ident_arg, resolved>>

\* one turn of `for module in modules`
IncludeModule ==
    /\ pc = "includes"
    /\ includes.at = "loop"
    /\ includes.next <= Len(includes.modules)
    /\ \E w \in {IncludeLine(
                    PushToModule(
                        PopToPrefix([stack |-> includes.stack, outfile |-> includes.outfile],
                                    includes.modules[includes.next]),
                        includes.modules[includes.next]),
                    includes.modules[includes.next], includes.basepath)} :
          includes' = [includes EXCEPT !.stack = w.stack, !.outfile = w.outfile,
                                       !.next = @ + 1]
    /\ UNCHANGED <<config, pc, run, requests, next_req, message_graph, extern_paths,
                   modules, packages, code_gen, stack, service_state, result,
                   first_result, ident_arg, resolved>>

\* the loop is over: the blocks still open are closed, write_includes returns
CloseIncludes ==
    /\ pc = "includes"
    /\ includes.at = "loop"
    /\ includes.next > Len(includes.modules)
    /\ includes' = [includes EXCEPT !.outfile = CloseAll(includes), !.at = "done"]
    /\ UNCHANGED <<config, pc, run, requests, next_req, message_graph, extern_paths,
                   modules, packages, code_gen, stack, service_state, result,
                   first_result, ident_arg, resolved>>

NextIncludes == WriteIncludes \/ IncludeModule \/ CloseIncludes

SpecIncludes == InitIncludes /\ [][NextIncludes]_vars

\* ---------------------------------------- properties: the include file
\* the parts that follow `prefix` in the modules of S
ChildParts(prefix, S) ==
    {m[Len(prefix) + 1] : m \in {x \in S : Len(x) > Len(prefix) /\ StartsWith(x, prefix)}}
\* the containment of the modules of S as a text: the include of `prefix` when it is
\* a module, then one block for each part that follows it, the parts in order, each
\* block holding what is nested under it; left is the parts not yet written
RECURSIVE Nested(_, _, _, _)
Nested(prefix, S, left, basepath) ==
    IF left = {} THEN <<>>
    ELSE LET part == CHOOSE x \in left : \A y \in left : x = y \/ StrLess(x, y)
             inner == Append(prefix, part)
         IN <<Line(Len(prefix), "open", part)>>
            \o (IF inner \in S
                THEN <<Line(Len(inner), IF basepath THEN "include" ELSE "include_env", inner)>>
                ELSE <<>>)
            \o Nested(inner, S, ChildParts(inner, S), basepath)
            \o <<Line(Len(prefix), "close", <<>>)>>
            \o Nested(prefix, S, left \ {part}, basepath)
Containment(S, basepath) ==
    (IF <<>> \in S THEN <<Line(0, IF basepath THEN "include" ELSE "include_env", <<>>)>>
     ELSE <<>>)
    \o Nested(<<>>, S, ChildParts(<<>>, S), basepath)
\* the lines of a kind among the first k lines written
CountKind(kind, k) ==
    Cardinality({i \in 1..k : includes.outfile[i].kind = kind})
IsInclude(line) == line.kind \in {"include", "include_env"}

\* C24: what write_includes writes depends on the set of the modules alone: it is the
\* containment of that set, the modules in sorted order, each with one include line at
\* the depth of the number of its parts, one `pub mod` block for each prefix that
\* modules share, opened once and closed once. While it writes, no more blocks are
\* closed than were opened, and the stack is as deep as the blocks that are open.
C24_IncludesOfTheSet ==
    /\ \A k \in 0..Len(includes.outfile) :
          CountKind("close", k) <= CountKind("open", k)
    /\ includes.at = "loop" =>
          Len(includes.stack) = CountKind("open", Len(includes.outfile))
                                  - CountKind("close", Len(includes.outfile))
    /\ includes.at = "done" =>
          /\ includes.outfile = Containment(SeqRange(includes.given), includes.basepath)
          /\ CountKind("open", Len(includes.outfile))
                = CountKind("close", Len(includes.outfile))
          /\ \A m \in SeqRange(includes.given) :
                Cardinality({i \in DOMAIN includes.outfile :
                                /\ IsInclude(includes.outfile[i])
                                /\ includes.outfile[i].name = m
                                /\ includes.outfile[i].depth = Len(m)}) = 1
          /\ Cardinality({i \in DOMAIN includes.outfile : IsInclude(includes.outfile[i])})
                = Len(includes.given)

\* write_includes has returned for the modules a.b.c, the empty one and ab, given in
\* that order: the include of the empty module first, at depth 0, the blocks a, b
\* and c opened and closed, then the block ab
C24_UnsortedNested ==
    /\ includes.at = "done"
    /\ includes.given = <<mABC, <<>>, mAb>>
    /\ includes.modules = <<<<>>, mABC, mAb>>
    /\ includes.outfile[1] = Line(0, "include_env", <<>>)
    /\ includes.outfile[4] = Line(2, "open", <<"c">>)
    /\ includes.outfile[5] = Line(3, "include_env", mABC)
    /\ Len(includes.outfile) = 11

\* ------------------------------------- properties: references by path
\* the scope of the emission: the segments of the package, none when there is no
\* package, then the nested types that are open
Scope ==
    (IF code_gen.package = <<>> THEN <<>> ELSE Split(code_gen.package, "."))
    \o code_gen.type_path
\* how many leading segments two paths share
Shared(a, b) ==
    CHOOSE n \in 0..Len(a) :
        /\ n <= Len(b)
        /\ SubSeq(a, 1, n) = SubSeq(b, 1, n)
        /\ (n < Len(a) /\ n < Len(b)) => a[n + 1] # b[n + 1]
\* the reference to the name from the scope: up, then down, then the type
FromScope(name) ==
    LET shared == Shared(Scope, NamespaceOf(name))
    IN Join([k \in 1..(Len(Scope) - shared) |-> <<"super">>]
            \o [k \in 1..(Len(NamespaceOf(name)) - shared) |->
                  ToSnake(NamespaceOf(name)[shared + k])]
            \o <<ToUpperCamel(TypeOf(name))>>, "::")
IsPathRef(field) == field.type \in {"message", "group"} /\ ~ ExternName(field.type_name)
Supers(t) == Len(SelectSeq(t, LAMBDA x : x = "super"))

\* C25: a reference to a message whose name does not resolve in the registry is one
\* `super` for each segment of the scope (the package's segments, then the open
\* nested types) beyond what the scope and the namespace of the name share, then the
\* rest of the namespace in snake case, then the type in upper camel case; without a
\* package the scope has no package segment.
C25_UpThenDown ==
    [][/\ StructStep =>
            \A k \in DOMAIN StructFields :
               (~ IsMapField(StructFields[k]) /\ IsPathRef(StructFields[k]))
                  => FieldPieces[k].t = FromScope(StructFields[k].type_name)
       /\ (OneofStep /\ ~ code_gen'.panicked) =>
            \A k \in DOMAIN VariantPieces :
               IsPathRef(Members(Top.parts.oneof_fields)[k].field)
                  => VariantPieces[k].t
                        = FromScope(Members(Top.parts.oneof_fields)[k].field.type_name)]_vars

\* without a package, T and its nested U are in the buffer: from the top level, V is
\* `V` and .T.U is `t::U`; from inside T, T is `super::T` and .p.M.N is
\* `super::p::m::N`
C25_NoPackageScopes ==
    /\ pc = "files" /\ stack # <<>>
    /\ code_gen.package = <<>>
    /\ Top.kind = "message" /\ Top.fq = <<".", "T", ".", "U">> /\ Top.pc = "ret"
    /\ \E i \in DOMAIN code_gen.buf :
          code_gen.buf[i].k = "field" /\ code_gen.buf[i].n = <<"v">>
          /\ code_gen.buf[i].t = <<"V">>
    /\ \E i \in DOMAIN code_gen.buf :
          code_gen.buf[i].k = "field" /\ code_gen.buf[i].n = <<"u">>
          /\ code_gen.buf[i].t = <<"t", "::", "U">>
    /\ \E i \in DOMAIN code_gen.buf :
          code_gen.buf[i].k = "field" /\ code_gen.buf[i].n = <<"t">>
          /\ code_gen.buf[i].t = <<"super", "::", "T">>
    /\ \E i \in DOMAIN code_gen.buf :
          code_gen.buf[i].k = "field" /\ code_gen.buf[i].n = <<"x">>
          /\ code_gen.buf[i].t = <<"super", "::", "p", "::", "m", "::", "N">>

\* ------------------------------------------ properties: fields and oneofs
\* a field of the struct: without a oneof index, or optional in proto3
Plain(f) == f.oneof_index = -1 \/ f.proto3_optional
\* the other fields of the message m that carry the oneof index o
MembersAt(m, o) == SelectSeq(m.field, LAMBDA f : ~ Plain(f) /\ f.oneof_index = o)
\* the oneofs of m that have a member, by position in the declaration
RealOneofs(m) ==
    SelectSeq([i \in DOMAIN m.oneof_decl |-> i], LAMBDA i : MembersAt(m, i - 1) # <<>>)
Shape(toks) == [k \in DOMAIN toks |-> [k |-> toks[k].k, n |-> toks[k].n]]
PiecesOf(kinds) == Shape(SelectSeq(Appended, LAMBDA tok : tok.k \in kinds))
\* the struct of m: its plain fields, then a field for each oneof with a member
StructOf(m) ==
    [k \in DOMAIN SelectSeq(m.field, Plain) |->
        [k |-> IF IsMapField(SelectSeq(m.field, Plain)[k]) THEN "map_field" ELSE "field",
         n |-> ToSnake(SelectSeq(m.field, Plain)[k].name)]]
    \o [k \in DOMAIN RealOneofs(m) |->
          [k |-> "oneof_field", n |-> ToSnake(m.oneof_decl[RealOneofs(m)[k]])]]
\* the tagged unions of m: for each oneof with a member, its head and a variant
\* for each member
RECURSIVE UnionsOf(_, _)
UnionsOf(m, idxs) ==
    IF idxs = <<>> THEN <<>>
    ELSE <<[k |-> "oneof_enum", n |-> ToUpperCamel(m.oneof_decl[Head(idxs)])]>>
         \o [k \in DOMAIN MembersAt(m, Head(idxs) - 1) |->
               [k |-> "oneof_variant",
                n |-> ToUpperCamel(MembersAt(m, Head(idxs) - 1)[k].name)]]
         \o UnionsOf(m, Tail(idxs))
MemberKinds == {"field", "map_field", "oneof_field", "oneof_enum", "oneof_variant"}

\* C26: the struct of a message holds, once each and in order, its fields that have
\* no oneof index or are optional in proto3, then one field per oneof that keeps a
\* member; the nested module holds one tagged union per such oneof with one variant
\* per member; a oneof without a member gives neither, one with a single member
\* gives both.
C26_EveryFieldOnce ==
    [][/\ StructStep => PiecesOf(MemberKinds) = StructOf(Top.node)
       /\ OneofStep => PiecesOf(MemberKinds) = UnionsOf(Top.node, RealOneofs(Top.node))]_vars

CountPiece(kind, name) ==
    Len(SelectSeq(code_gen.buf, LAMBDA tok : tok.k = kind /\ tok.n = name))

\* T is emitted whole: s, optional in proto3, is once in the struct and _s gives
\* nothing; w is once in the union O of its oneof, alone there, and not in the struct
C26_SyntheticAndSingle ==
    /\ pc = "files" /\ stack # <<>>
    /\ Top.kind = "message" /\ Top.fq = <<".", "T">> /\ Top.pc = "ret"
    /\ CountPiece("field", <<"s">>) = 1
    /\ CountPiece("oneof_field", <<"_", "s">>) = 0
    /\ \A i \in DOMAIN code_gen.buf :
          code_gen.buf[i].k = "oneof_enum" => code_gen.buf[i].n = <<"O">>
    /\ CountPiece("oneof_field", <<"o">>) = 1
    /\ CountPiece("oneof_enum", <<"O">>) = 1
    /\ CountPiece("oneof_variant", <<"W">>) = 1
    /\ CountPiece("field", <<"w">>) = 0
    /\ \A i \in DOMAIN code_gen.buf :
          code_gen.buf[i].k = "oneof_variant" => code_gen.buf[i].n = <<"W">>

\* ------------------------------------------------- properties: map fields
\* the nested types of m that carry the map_entry marker
EntriesOf(m) == SelectSeq(m.nested_type, LAMBDA n : n.map_entry)
\* the entries of m that the type name of the field f names, m being fq
EntriesFor(m, fq, f) ==
    SelectSeq(EntriesOf(m), LAMBDA e : f.type_name = fq \o <<".">> \o e.name)
\* an entry whose first two fields are not `key` and `value`, in that order
Malformed(e) ==
    \/ Len(e.field) < 2
    \/ e.field[1].name # <<"k", "e", "y">>
    \/ e.field[2].name # <<"v", "a", "l", "u", "e">>
ModPieces == SelectSeq(Appended, LAMBDA tok : tok.k = "mod")
\* a field of the struct of m: a map field, of the key and the value of its entry
\* and in no Vec, Option or Box, when its type is an entry of m, a field otherwise
AsMapOrField(m, fq, f, piece) ==
    IF EntriesFor(m, fq, f) = <<>> THEN piece.k = "field"
    ELSE /\ piece.k = "map_field"
         /\ \A i \in DOMAIN piece.w : piece.w[i] \notin {"Vec", "Option", "Box"}
         /\ \E e \in {EntriesFor(m, fq, f)[Len(EntriesFor(m, fq, f))]} :
               piece.t = ResolveType(Ctx, code_gen, e.field[1], fq) \o <<", ">>
                            \o ResolveType(Ctx, code_gen, e.field[2], fq)

\* C27: append_message is never called on a nested type with the map_entry marker;
\* the struct of a message is followed by a nested module only when the message
\* has an enum, a nested type without the marker or a oneof with a member; a field
\* whose type name is the name of the message, a dot and the name of an entry is a
\* map field of the key and value types of the entry, in no Vec, Option or Box; and
\* the message is not emitted, the generation aborts, when one of its entries has
\* not `key` then `value` as its first two fields.
C27_MapEntries ==
    [][/\ \A i \in DOMAIN stack' :
             stack'[i].kind = "message" => ~ stack'[i].node.map_entry
       /\ StructStep =>
            /\ \A k \in DOMAIN FieldPieces :
                  AsMapOrField(Top.node, stack'[Len(stack)].fq,
                               SelectSeq(Top.node.field, Plain)[k], FieldPieces[k])
            /\ (ModPieces # <<>>) <=>
                  \/ Top.node.enum_type # <<>>
                  \/ RealOneofs(Top.node) # <<>>
                  \/ \E i \in DOMAIN Top.node.nested_type :
                        ~ Top.node.nested_type[i].map_entry
       /\ (/\ pc = "files" /\ stack # <<>>
           /\ Top.kind = "message" /\ Top.pc = "entry" /\ ~ TopIsExtern
           /\ \E i \in DOMAIN EntriesOf(Top.node) : Malformed(EntriesOf(Top.node)[i]))
          => (code_gen'.panicked /\ pc' = "panic" /\ code_gen'.buf = code_gen.buf)]_vars

\* the generation has aborted at Q, whose entry has value before key; before it W
\* was emitted: m is a map field of i32 and W without a wrapper, neither a struct
\* nor a module was written for MEntry, and W has no module
C27_MapThenAbort ==
    /\ pc = "panic" /\ code_gen.panicked
    /\ stack # <<>> /\ Top.kind = "message" /\ Top.node = MsgMapQ
    /\ \E i \in DOMAIN code_gen.buf :
          /\ code_gen.buf[i].k = "map_field" /\ code_gen.buf[i].n = <<"m">>
          /\ code_gen.buf[i].t = <<"i32", ", ", "W">>
          /\ \A j \in DOMAIN code_gen.buf[i].w :
                code_gen.buf[i].w[j] \notin {"Vec", "Option", "Box"}
    /\ CountPiece("struct", <<"W">>) = 1
    /\ CountPiece("struct", <<"M", "E", "n", "t", "r", "y">>) = 0
    /\ CountPiece("struct", <<"Q">>) = 0
    /\ \A i \in DOMAIN code_gen.buf : code_gen.buf[i].k # "mod"

\* -------------------------------------------- properties: optional fields
InOption(piece) == \E i \in DOMAIN piece.w : piece.w[i] = "Option"
InVec(piece) == \E i \in DOMAIN piece.w : piece.w[i] = "Vec"
\* the syntax of the file that is being generated
FileSyntax == requests[next_req].fd.syntax

\* C28: in the struct of a message, a field that is not repeated is in an Option
\* iff it is marked proto3_optional, or its label is optional and its type is a
\* message or the file is proto2; a required field and a proto3 field of a scalar
\* or enum type, neither marked proto3_optional, are in no Option; a repeated
\* field is in a Vec and in no Option.
C28_OptionalFields ==
    [][StructStep =>
         \A k \in DOMAIN FieldPieces :
            \E f \in {SelectSeq(Top.node.field, Plain)[k]} :
               FieldPieces[k].k = "field" =>
                  /\ f.label # "repeated" =>
                        /\ ~ InVec(FieldPieces[k])
                        /\ InOption(FieldPieces[k]) <=>
                              \/ f.proto3_optional
                              \/ /\ f.label = "optional"
                                 /\ f.type = "message" \/ FileSyntax = "proto2"
                  /\ (f.label = "required" /\ ~ f.proto3_optional)
                        => ~ InOption(FieldPieces[k])
                  /\ (FileSyntax = "proto3" /\ f.type # "message" /\ ~ f.proto3_optional)
                        => ~ InOption(FieldPieces[k])
                  /\ f.label = "repeated"
                        => (InVec(FieldPieces[k]) /\ ~ InOption(FieldPieces[k]))]_vars

WrappedAs(buf, name, w) ==
    \E i \in DOMAIN buf : buf[i].k = "field" /\ buf[i].n = name /\ buf[i].w = w

\* the proto3 file without a package is generated and the proto2 file is at its
\* second message: in proto3 the int32 i is bare, s, marked, is in an Option and
\* the message v is in an Option; in proto2 the optional int32 i is in an Option,
\* the required j and the required message l are in none
C28_BothSyntaxes ==
    /\ pc = "files" /\ stack # <<>>
    /\ FileSyntax = "proto2"
    /\ <<>> \in DOMAIN modules
    /\ WrappedAs(modules[<<>>], <<"i">>, <<>>)
    /\ WrappedAs(modules[<<>>], <<"s">>, <<"Option">>)
    /\ WrappedAs(modules[<<>>], <<"v">>, <<"Option">>)
    /\ WrappedAs(code_gen.buf, <<"i">>, <<"Option">>)
    /\ WrappedAs(code_gen.buf, <<"j">>, <<>>)
    /\ WrappedAs(code_gen.buf, <<"l">>, <<>>)

\* ------------------------------------------ properties: the enum lookups
\* the arms the step writes into the `match self` of as_str_name and into the
\* `match value` of from_str_name
NameArms == SelectSeq(Appended, LAMBDA tok : tok.k = "arm_name")
ValueArms == SelectSeq(Appended, LAMBDA tok : tok.k = "arm_value")
\* a match takes its first arm that fits
FirstArm(arms, fits(_)) == arms[CHOOSE k \in DOMAIN arms :
                                   fits(arms[k]) /\ \A j \in 1..(k - 1) : ~ fits(arms[j])]
\* as_str_name of the variant v, as the emitted text computes it
AsStrName(v) == LET Fits(arm) == arm.n = v IN FirstArm(NameArms, Fits).t
\* from_str_name of the string value: the arm `_ => None` is the last
FromStrName(value) ==
    LET Fits(arm) == arm.t = value
    IN IF \E k \in DOMAIN ValueArms : Fits(ValueArms[k])
       THEN Some(FirstArm(ValueArms, Fits).n)
       ELSE None
\* names that no value of the enum has: the empty name, the generated names and
\* the names of the values in lower case
ValueNames == {Top.node.value[k][1] : k \in DOMAIN Top.node.value}
UnknownNames ==
    ({<<>>, <<"E", "_", "A">>, <<"A", "L", "_", "X">>}
       \cup {GenName(k) : k \in DOMAIN Top.node.value}
       \cup {ToSnake(Top.node.value[k][1]) : k \in DOMAIN Top.node.value})
    \ ValueNames

\* C29: for an emitted enum, as_str_name and from_str_name have one arm for each
\* variant and no other but `_ => None`; as_str_name of a variant is the name of
\* its value in the schema, unchanged, and from_str_name of that name is the
\* variant; from_str_name of any string is a variant whose as_str_name is that
\* string, or None; it is None for the name of a value dropped as an alias and for
\* a name that no value has.
C29_LookupsInverse ==
    [][(EnumStep /\ ~ code_gen'.panicked) =>
          /\ [k \in DOMAIN NameArms |-> NameArms[k].n]
                = [k \in DOMAIN VariantToks |-> VariantToks[k].n]
          /\ [k \in DOMAIN ValueArms |-> ValueArms[k].n]
                = [k \in DOMAIN VariantToks |-> VariantToks[k].n]
          /\ Len(SelectSeq(Appended, LAMBDA tok : tok.k = "arm_none")) = 1
          /\ Len(VariantToks) = Len(KeptIdx)
          /\ \A k \in DOMAIN VariantToks :
                /\ AsStrName(VariantToks[k].n) = Top.node.value[KeptIdx[k]][1]
                /\ FromStrName(AsStrName(VariantToks[k].n)) = Some(VariantToks[k].n)
          /\ \A name \in ValueNames \cup UnknownNames :
                IsSome(FromStrName(name)) => AsStrName(Unwrap(FromStrName(name))) = name
          /\ \A k \in DOMAIN Top.node.value \ Kept :
                FromStrName(Top.node.value[k][1]) = None
          /\ \A name \in UnknownNames : FromStrName(name) = None]_vars

ArmFor(kind, variant, name) ==
    \E i \in DOMAIN code_gen.buf :
       /\ code_gen.buf[i].k = kind
       /\ code_gen.buf[i].n = variant /\ code_gen.buf[i].t = name

\* the enum Al is emitted with its prefix stripped: X and Y have their arms under
\* AL_X and AL_Y in both functions, and al_x, an alias of AL_X, has none
C29_AliasHasNoArm ==
    /\ pc = "files" /\ stack # <<>>
    /\ Top.kind = "enum" /\ Top.node = EnumAl /\ Top.pc = "ret"
    /\ config.strip_enum_prefix
    /\ ArmFor("arm_name", <<"X">>, <<"A", "L", "_", "X">>)
    /\ ArmFor("arm_value", <<"X">>, <<"A", "L", "_", "X">>)
    /\ ArmFor("arm_name", <<"Y">>, <<"A", "L", "_", "Y">>)
    /\ ArmFor("arm_value", <<"Y">>, <<"A", "L", "_", "Y">>)
    /\ \A i \in DOMAIN code_gen.buf :
          code_gen.buf[i].k \in {"arm_name", "arm_value"}
             => code_gen.buf[i].t # <<"a", "l", "_", "x">>
    /\ CountPiece("arm_none", <<>>) = 1

\* --------------------------------------------- properties: the file header
\* the kinds of the tokens of a text, the indentation left out
KindsOf(buf) ==
    [k \in DOMAIN SelectSeq(buf, LAMBDA tok : tok.k # "indent") |->
        SelectSeq(buf, LAMBDA tok : tok.k # "indent")[k].k]
Header == <<"extern_crate_alloc", "use_codec">>
\* how many of the first n requests are placed in the module
PlacedIn(module, n) == Cardinality({k \in 1..n : requests[k].module = module})
\* how many headers a text holds
Headers(buf) == Len(SelectSeq(buf, LAMBDA tok : tok.k = "extern_crate_alloc"))
\* the loop of Config::generate takes the next file, and is done with a file
FileBeginStep == pc = "files" /\ stack = <<>> /\ stack' # <<>>
FileEndStep == pc = "files" /\ stack # <<>> /\ stack' = <<>> /\ pc' = "files"

\* C30: generate starts every file by appending `extern crate alloc;` and the
\* import of the codec to the buffer of the module of the file; when the file is
\* done the buffer is not empty, it holds one header for each file of the module
\* processed so far, and the module, with every module there was, stays in the
\* map; every module of the requests is in the map that Config::generate returns.
C30_HeaderAlways ==
    [][/\ FileBeginStep =>
            \E prior \in {IF requests[next_req].module \in DOMAIN modules
                          THEN modules[requests[next_req].module] ELSE <<>>} :
               /\ Len(code_gen'.buf) > Len(prior)
               /\ SubSeq(code_gen'.buf, 1, Len(prior)) = prior
               /\ KindsOf(SubSeq(code_gen'.buf, Len(prior) + 1, Len(code_gen'.buf))) = Header
       /\ FileEndStep =>
            /\ code_gen.buf # <<>>
            /\ DOMAIN modules \subseteq DOMAIN modules'
            /\ requests[next_req].module \in DOMAIN modules'
            /\ modules'[requests[next_req].module] = code_gen.buf
            /\ Headers(code_gen.buf) = PlacedIn(requests[next_req].module, next_req)
       /\ (pc = "files" /\ pc' = "done") =>
            /\ IsSome(result') /\ Unwrap(result').ok
            /\ \A k \in DOMAIN requests :
                  /\ requests[k].module \in DOMAIN Unwrap(result').v
                  /\ Headers(Unwrap(result').v[requests[k].module])
                        = PlacedIn(requests[k].module, Len(requests))]_vars

\* Config::generate has returned for z.proto, which declares nothing, and x.proto,
\* whose types are all under the extern path `.x`: the text of z is the line of
\* add_generated_modules, the header and what finalize of the service generator
\* writes, the text of x has the header and neither a struct nor an enum
C30_HeaderOnlyModules ==
    /\ pc = "done" /\ IsSome(result) /\ Unwrap(result).ok
    /\ requests = <<Request(FileZ), Request(FileX)>>
    /\ config = ConfigExternPath(ConfigServiceGenerator(ConfigDefault), <<".", "x">>, rXX)
    /\ KindsOf(Unwrap(result).v[<<<<"z">>>>]) = <<"generated">> \o Header \o <<"utils">>
    /\ Headers(Unwrap(result).v[<<<<"x">>>>]) = 1
    /\ \A i \in DOMAIN Unwrap(result).v[<<<<"x">>>>] :
          Unwrap(result).v[<<<<"x">>>>][i].k \notin {"struct", "enum"}

====
